---- MODULE Spec2Model ----
(***************************************************************************)
(* A model of the analytic coverage rasterizer (rasterizer.cpp, the        *)
(* event-sweep version), of the scene assembly in front of it              *)
(* (document.hpp: Path, Shape) and of the geometry primitives              *)
(* (rasterizer.hpp).                                                       *)
(*                                                                         *)
(* Arithmetic: the program computes in f32.  The model computes in exact   *)
(* rationals (a pair <<numerator, denominator>> in lowest terms), so every *)
(* statement checked here is a statement about the algorithm under exact   *)
(* arithmetic; a division by zero yields the value Inf, as 1/0 does in     *)
(* IEEE arithmetic.                                                        *)
(***************************************************************************)
EXTENDS Integers, Sequences, FiniteSets, TLC

\* ------------------------------------------------------------------------
\* Exact rational arithmetic (the model's stand-in for float)
\* ------------------------------------------------------------------------

Abs(n) == IF n < 0 THEN -n ELSE n

RECURSIVE Gcd(_, _)
Gcd(a, b) == IF b = 0 THEN a ELSE Gcd(b, a % b)

\* the rational n/d in lowest terms with a positive denominator; d = 0 is Inf
Q(n, d) ==
  IF d = 0 THEN <<1, 0>>
  ELSE LET g == Gcd(Abs(n), Abs(d))
           s == IF d < 0 THEN -1 ELSE 1
       IN  <<(s * n) \div g, (s * d) \div g>>

Inf == <<1, 0>>
QI(n) == <<n, 1>>
QZero == <<0, 1>>
QOne == <<1, 1>>
QHalf == <<1, 2>>

\* sums over the least common denominator and products reduced crosswise:
\* the intermediate values stay small
QAdd(a, b) ==
  IF a[2] = 0 \/ b[2] = 0 THEN Inf
  ELSE LET g == Gcd(a[2], b[2])
       IN  Q(a[1] * (b[2] \div g) + b[1] * (a[2] \div g), (a[2] \div g) * b[2])
QNeg(a) == <<-a[1], a[2]>>
QSub(a, b) == IF a[2] = 0 \/ b[2] = 0 THEN Inf ELSE QAdd(a, QNeg(b))
QMul(a, b) ==
  IF a[2] = 0 \/ b[2] = 0 THEN Inf
  ELSE LET g == Gcd(Abs(a[1]), b[2])
           h == Gcd(Abs(b[1]), a[2])
       IN  <<(a[1] \div g) * (b[1] \div h), (a[2] \div h) * (b[2] \div g)>>
QDiv(a, b) ==
  IF a[2] = 0 \/ b[1] = 0 \/ b[2] = 0 THEN Inf
  ELSE QMul(a, IF b[1] < 0 THEN <<-b[2], -b[1]>> ELSE <<b[2], b[1]>>)
QLt(a, b) ==
  LET g == Gcd(a[2], b[2])
  IN  IF g = 0 THEN a[1] * b[2] < b[1] * a[2]
      ELSE a[1] * (b[2] \div g) < b[1] * (a[2] \div g)
QLe(a, b) == ~QLt(b, a)
QMax(a, b) == IF QLt(a, b) THEN b ELSE a
QMin(a, b) == IF QLt(b, a) THEN b ELSE a
\* static_cast<size_t>(f) of a non-negative value: truncation
QTrunc(a) == a[1] \div a[2]
IsFinite(a) == a[2] # 0

\* ------------------------------------------------------------------------
\* Geometry primitives (rasterizer.hpp)
\* ------------------------------------------------------------------------

Point(x, y) == [x |-> x, y |-> y]
\* a point with integer coordinates
P(x, y) == Point(QI(x), QI(y))

\* Line(float m, const Point& p)
LineMP(m, p) == [m |-> m, x0 |-> QSub(p.x, QMul(m, p.y))]
\* Line(const Point& p0, const Point& p1)
Line(p0, p1) == LineMP(QDiv(QSub(p1.x, p0.x), QSub(p1.y, p0.y)), p0)
\* Line(float x): the vertical line through x
LineX(x) == [m |-> QZero, x0 |-> x]

get_x(l, y) == QAdd(QMul(l.m, y), l.x0)

intersect(l0, l1) == QDiv(QSub(l1.x0, l0.x0), QSub(l0.m, l1.m))

\* Segment(const Point& p0, const Point& p1)
Segment(p0, p1) == [y0 |-> p0.y, y1 |-> p1.y, line |-> Line(p0, p1)]

Color(r, g, b, a) == [r |-> r, g |-> g, b |-> b, a |-> a]
\* Color(): transparent black
Color0 == Color(QZero, QZero, QZero, QZero)
ColorAdd(c, d) == Color(QAdd(c.r, d.r), QAdd(c.g, d.g), QAdd(c.b, d.b), QAdd(c.a, d.a))
ColorMul(c, f) == Color(QMul(c.r, f), QMul(c.g, f), QMul(c.b, f), QMul(c.a, f))

\* a blend that weights the destination by its own alpha
blend_by_dst_alpha(dst, src) == ColorAdd(src, ColorMul(dst, QSub(QOne, dst.a)))

blend(dst, src) == ColorAdd(src, ColorMul(dst, QSub(QOne, src.a)))

\* Shape(paint): no segments yet
Shape(paint) == [segments |-> <<>>, paint |-> paint]

append_segment_nocheck(shape, p0, p1) ==
  [shape EXCEPT !.segments = Append(@, Segment(p0, p1))]

append_segment(shape, p0, p1) ==
  IF p0.y # p1.y
  THEN [shape EXCEPT !.segments = Append(@, Segment(p0, p1))]
  ELSE shape

\* ------------------------------------------------------------------------
\* Transformation, Subpath, Path (document.hpp)
\* ------------------------------------------------------------------------

Transformation(a, b, c, d, e, f) == [a |-> a, b |-> b, c |-> c, d |-> d, e |-> e, f |-> f]
\* Transformation(): the identity
Identity == Transformation(QOne, QZero, QZero, QOne, QZero, QZero)
translate(x, y) == Transformation(QOne, QZero, QZero, QOne, x, y)
scale(x, y) == Transformation(x, QZero, QZero, y, QZero, QZero)

\* operator *(const Transformation& t, const Point& p)
Apply(t, p) ==
  Point(QAdd(QAdd(QMul(t.a, p.x), QMul(t.c, p.y)), t.e),
        QAdd(QAdd(QMul(t.b, p.x), QMul(t.d, p.y)), t.f))

Subpath(points, closed) == [points |-> points, closed |-> closed]

\* Path(t): no subpaths yet
Path(t) == [t |-> t, subpaths |-> <<>>]

\* the loop of fill_subpath: append_segment(t * points[i-1], t * points[i]) for i = 1 .. size-1
RECURSIVE fill_subpath_loop(_, _, _, _)
fill_subpath_loop(t, points, shape, i) ==
  IF i <= Len(points)
  THEN fill_subpath_loop(t, points, append_segment(shape, Apply(t, points[i-1]), Apply(t, points[i])), i + 1)
  ELSE shape

\* a subpath fed to the shape without the segment from its last point to its first
fill_subpath_unclosed(t, subpath, shape) == fill_subpath_loop(t, subpath.points, shape, 2)

\* Path::fill_subpath of a subpath that has a point; for one that has none
\* see fill_subpath_empty
fill_subpath(t, subpath, shape) ==
  LET points == subpath.points
      looped == fill_subpath_loop(t, points, shape, 2)
  IN  IF points = <<>> THEN looped
      ELSE append_segment(looped, Apply(t, points[Len(points)]), Apply(t, points[1]))

RECURSIVE fill_loop(_, _, _)
fill_loop(path, shape, k) ==
  IF k <= Len(path.subpaths)
  THEN fill_loop(path, fill_subpath(path.t, path.subpaths[k], shape), k + 1)
  ELSE shape

\* Path::fill: shapes.emplace_back(paint), then every subpath is fed to it
fill(path, shapes, paint) == Append(shapes, fill_loop(path, Shape(paint), 1))

\* the program ended by a fault
Crash == [crashed |-> TRUE]

\* Path::fill_subpath of a subpath with no points: the loop does nothing, and
\* points.back() and points.front() read outside the storage: a fault, or
\* the two values stray that happen to be there
fill_subpath_empty(t, shape, stray) ==
  {Crash, append_segment(shape, Apply(t, stray[1]), Apply(t, stray[2]))}

\* std::sqrt of a value that is the square of a rational
QSqrt(a) ==
  <<CHOOSE k \in 0..a[1] : k * k = a[1], CHOOSE k \in 0..a[2] : k * k = a[2]>>

PointAdd(p, q) == Point(QAdd(p.x, q.x), QAdd(p.y, q.y))
PointSub(p, q) == Point(QSub(p.x, q.x), QSub(p.y, q.y))
PointMul(p, f) == Point(QMul(p.x, f), QMul(p.y, f))
dot(p, q) == QAdd(QMul(p.x, q.x), QMul(p.y, q.y))

\* Subpath::length
length(p) == QSqrt(dot(p, p))

\* push_offset_segment with the offset on the other side of the segment
push_offset_segment_right(points, p0, p1, offset) ==
  LET d == PointSub(p1, p0)
  IN  IF length(d) = QZero THEN points
      ELSE LET e == PointMul(d, QDiv(offset, length(d)))
               n == Point(e.y, QNeg(e.x))
           IN  points \o <<PointAdd(p0, n), PointAdd(p1, n)>>

\* Subpath::push_offset_segment, on the points of the subpath
push_offset_segment(points, p0, p1, offset) ==
  LET d == PointSub(p1, p0)
  IN  IF length(d) = QZero THEN points
      ELSE LET e == PointMul(d, QDiv(offset, length(d)))
               n == Point(QNeg(e.y), e.x)
           IN  points \o <<PointAdd(p0, n), PointAdd(p1, n)>>

\* Path::current_point
current_point(path) ==
  IF path.subpaths = <<>> THEN P(0, 0)
  ELSE LET subpath == path.subpaths[Len(path.subpaths)]
       IN  IF subpath.closed THEN subpath.points[1]
           ELSE subpath.points[Len(subpath.points)]

\* Path::move_to
move_to(path, p) == [path EXCEPT !.subpaths = Append(@, Subpath(<<p>>, FALSE))]

\* line_to that appends to the last subpath whenever there is one
line_to_appending(self, p) ==
  LET started == IF self.subpaths = <<>>
                 THEN move_to(self, current_point(self))
                 ELSE self
  IN  [started EXCEPT !.subpaths[Len(started.subpaths)].points = Append(@, p)]

\* Path::line_to
line_to(path, p) ==
  LET started == IF path.subpaths = <<>> \/ path.subpaths[Len(path.subpaths)].closed
                 THEN move_to(path, current_point(path))
                 ELSE path
  IN  [started EXCEPT !.subpaths[Len(started.subpaths)].points = Append(@, p)]

\* Path::close, of a path that has a subpath
close(path) == [path EXCEPT !.subpaths[Len(path.subpaths)].closed = TRUE]

\* the first loop of stroke: the segments points[i-1] - points[i], i = 1 .. size-1
RECURSIVE stroke_forward(_, _, _, _)
stroke_forward(points, new_points, offset, i) ==
  IF i <= Len(points)
  THEN stroke_forward(points, push_offset_segment(new_points, points[i-1], points[i], offset), offset, i + 1)
  ELSE new_points

\* the last loop of stroke: the segments points[i] - points[i-1], i = size-1 .. 1
RECURSIVE stroke_backward(_, _, _, _)
stroke_backward(points, new_points, offset, i) ==
  IF i > 1
  THEN stroke_backward(points, push_offset_segment(new_points, points[i], points[i-1], offset), offset, i - 1)
  ELSE new_points

\* fill_subpath as stroke calls it: what it may leave in the shape
fill_new_subpath(t, new_points, shape, stray) ==
  IF new_points = <<>> THEN fill_subpath_empty(t, shape, stray)
  ELSE {fill_subpath(t, Subpath(new_points, TRUE), shape)}

\* the body of the loop of stroke for one subpath: what it may leave in the shape
stroke_subpath(t, subpath, offset, shape, stray) ==
  LET points == subpath.points
      forward == stroke_forward(points, <<>>, offset, 2)
  IN  IF subpath.closed
      THEN LET outer == fill_new_subpath(t, push_offset_segment(forward, points[Len(points)], points[1], offset), shape, stray)
               inner == stroke_backward(points, push_offset_segment(<<>>, points[1], points[Len(points)], offset), offset, Len(points))
           IN  (outer \cap {Crash})
               \cup UNION {fill_new_subpath(t, inner, s, stray) : s \in outer \ {Crash}}
      ELSE fill_new_subpath(t, stroke_backward(points, forward, offset, Len(points)), shape, stray)

RECURSIVE stroke_loop(_, _, _, _, _)
stroke_loop(path, offset, results, stray, k) ==
  IF k <= Len(path.subpaths)
  THEN stroke_loop(path, offset,
                   (results \cap {Crash})
                   \cup UNION {stroke_subpath(path.t, path.subpaths[k], offset, s, stray) : s \in results \ {Crash}},
                   stray, k + 1)
  ELSE results

\* Path::stroke: what it may leave in shapes, and whether it ended by a fault;
\* stray is what the reads outside a vector's storage give during the call
stroke(path, shapes, stroke_width, paint, stray) ==
  LET results == stroke_loop(path, QDiv(stroke_width, QI(2)), {Shape(paint)}, stray, 1)
  IN  {[crashed |-> TRUE, shapes |-> shapes] : s \in results \cap {Crash}}
      \cup {[crashed |-> FALSE, shapes |-> Append(shapes, s)] : s \in results \ {Crash}}

\* ColorPaint::evaluate
evaluate(paint, point) == paint

\* ------------------------------------------------------------------------
\* The rasterizer (rasterizer.cpp, event-sweep version)
\* ------------------------------------------------------------------------

\* ShapeMap: std::map<const Shape*, int>, here a function from the shapes'
\* positions in the scene's vector (the order of their addresses) to counts
EmptyMap == [k \in {} |-> 0]

\* a map that toggles a shape at each of its lines: the even-odd rule
modify_even_odd(map, shape, direction) ==
  IF shape \in DOMAIN map
  THEN [k \in DOMAIN map \ {shape} |-> map[k]]
  ELSE [k \in DOMAIN map \cup {shape} |-> IF k = shape THEN direction ELSE map[k]]

\* a map that keeps a shape whose count is back at zero
modify_keeping_zero(map, shape, direction) ==
  IF shape \in DOMAIN map
  THEN [map EXCEPT ![shape] = @ + direction]
  ELSE [k \in DOMAIN map \cup {shape} |-> IF k = shape THEN direction ELSE map[k]]

\* ShapeMap::modify
modify(map, shape, direction) ==
  IF shape \in DOMAIN map
  THEN IF map[shape] + direction = 0
       THEN [k \in DOMAIN map \ {shape} |-> map[k]]
       ELSE [map EXCEPT ![shape] = @ + direction]
  ELSE [k \in DOMAIN map \cup {shape} |-> IF k = shape THEN direction ELSE map[k]]

SetMin(S) == CHOOSE a \in S : \A b \in S : a <= b
SetMax(S) == CHOOSE a \in S : \A b \in S : a >= b

\* the loop of get_color over the keys not yet visited, in the map's order
RECURSIVE get_color_desc(_, _, _, _)
get_color_desc(keys, shapes, point, color) ==
  IF keys = {} THEN color
  ELSE LET k == SetMax(keys)
       IN  get_color_desc(keys \ {k}, shapes, point, blend(color, evaluate(shapes[k].paint, point)))

RECURSIVE get_color_loop(_, _, _, _)
get_color_loop(keys, shapes, point, color) ==
  IF keys = {} THEN color
  ELSE LET k == SetMin(keys)
       IN  get_color_loop(keys \ {k}, shapes, point, blend(color, evaluate(shapes[k].paint, point)))

\* a map that orders its keys the other way round
get_color_descending(map, shapes, point) == get_color_desc(DOMAIN map, shapes, point, Color0)

\* ShapeMap::get_color
get_color(map, shapes, point) == get_color_loop(DOMAIN map, shapes, point, Color0)

RasterizeLine(line, direction, shape) ==
  [m |-> line.m, x0 |-> line.x0, direction |-> direction, shape |-> shape]

Strip(y0, y1, lines) == [y0 |-> y0, y1 |-> y1, lines |-> lines]

Trapezoid(y0, y1, x0, x1, x2, x3) ==
  [y0 |-> y0, y1 |-> y1, x0 |-> x0, x1 |-> x1, x2 |-> x2, x3 |-> x3]
\* Trapezoid(y0, y1, l0, l1)
TrapezoidL(y0, y1, l0, l1) ==
  Trapezoid(y0, y1, get_x(l0, y0), get_x(l0, y1), get_x(l1, y0), get_x(l1, y1))

\* the area of the enclosing parallelogram: the factor one half left out
get_area_doubled(t) ==
  QMul(QSub(t.y1, t.y0), QSub(QSub(QAdd(t.x2, t.x3), t.x0), t.x1))

get_area(t) ==
  QMul(QMul(QSub(t.y1, t.y0), QSub(QSub(QAdd(t.x2, t.x3), t.x0), t.x1)), QHalf)

\* rasterize_pixel: the area of the trapezoid inside the pixel column [x, x+1]
rasterize_pixel(trapezoid, x) ==
  LET y0 == trapezoid.y0
      y1 == trapezoid.y1
      x0 == trapezoid.x0
      x1 == trapezoid.x1
      x2 == trapezoid.x2
      x3 == trapezoid.x3
      x4 == QI(x)
      x5 == QI(x + 1)
      \* calculate the area assuming x4 >= x1 && x5 <= x2
      area0 == QSub(y1, y0)
      l0 == Line(Point(x0, y0), Point(x1, y1))
      area1 ==
        IF QLt(x4, x1)
        THEN LET a == IF QLt(x4, x0)
                      THEN QSub(area0, get_area(Trapezoid(y0, y1, x4, x4, x0, x1)))
                      ELSE QSub(area0, get_area(Trapezoid(intersect(l0, LineX(x4)), y1, x4, x4, x4, x1)))
             IN  IF QLt(x5, x1)
                 THEN QAdd(a, get_area(Trapezoid(intersect(l0, LineX(x5)), y1, x5, x5, x5, x1)))
                 ELSE a
        ELSE area0
      l1 == Line(Point(x2, y0), Point(x3, y1))
      area2 ==
        IF QLt(x2, x5)
        THEN LET a == IF QLt(x3, x5)
                      THEN QSub(area1, get_area(Trapezoid(y0, y1, x2, x3, x5, x5)))
                      ELSE QSub(area1, get_area(Trapezoid(y0, intersect(l1, LineX(x5)), x2, x5, x5, x5)))
             IN  IF QLt(x2, x4)
                 THEN QAdd(a, get_area(Trapezoid(y0, intersect(l1, LineX(x4)), x2, x4, x4, x4)))
                 ELSE a
        ELSE area1
  IN  area2

\* the ShapeMap of rasterize_row after modify was called for lines[1 .. i]
RECURSIVE shapes_after(_, _)
shapes_after(lines, i) ==
  IF i = 0 THEN EmptyMap
  ELSE modify(shapes_after(lines, i - 1), lines[i].shape, lines[i].direction)

\* the trapezoid without the two swaps
row_trapezoid_unswapped(y0, y1, l0, l1) == TrapezoidL(y0, y1, l0, l1)

\* the trapezoid of rasterize_row between l0 and l1, after the two swaps
row_trapezoid(y0, y1, l0, l1) ==
  LET t == TrapezoidL(y0, y1, l0, l1)
      a == IF QLt(t.x1, t.x0) THEN [t EXCEPT !.x0 = t.x1, !.x1 = t.x0] ELSE t
  IN  IF QLt(a.x3, a.x2) THEN [a EXCEPT !.x2 = a.x3, !.x3 = a.x2] ELSE a

\* one add_pixel call as rasterize_row makes it: pixel (x, y) receives
\* color * factor; i, trapezoid and map record where the call came from
AddPixel(x, y, i, trapezoid, map, shapes) ==
  LET factor == rasterize_pixel(trapezoid, x)
      color == get_color(map, shapes, Point(QAdd(QI(x), QHalf), QAdd(QI(y), QHalf)))
  IN  [x |-> x, y |-> y, color |-> ColorMul(color, factor),
       factor |-> factor, paint |-> color, i |-> i, trapezoid |-> trapezoid, map |-> map]

\* for (size_t x = x0; x < x1; ++x): the add_pixel calls of one trapezoid
RECURSIVE column_loop(_, _, _, _, _, _, _)
column_loop(x, x1, y, i, trapezoid, map, shapes) ==
  IF QLt(QI(x), x1)
  THEN <<AddPixel(x, y, i, trapezoid, map, shapes)>>
         \o column_loop(x + 1, x1, y, i, trapezoid, map, shapes)
  ELSE <<>>

\* for (size_t i = 1; i < strip.lines.size(); ++i): the add_pixel calls of one row
RECURSIVE row_loop(_, _, _, _, _, _, _)
row_loop(i, strip, shapes, width, y, y0, y1) ==
  IF i < Len(strip.lines)
  THEN LET l0 == strip.lines[i]
           map == shapes_after(strip.lines, i)
           l1 == strip.lines[i + 1]
           trapezoid == row_trapezoid(y0, y1, l0, l1)
           x0 == QMax(trapezoid.x0, QZero)
           x1 == QMin(trapezoid.x3, QSub(QI(width), QHalf))
       IN  (IF DOMAIN map # {}
            THEN column_loop(QTrunc(x0), x1, y, i, trapezoid, map, shapes)
            ELSE <<>>)
           \o row_loop(i + 1, strip, shapes, width, y, y0, y1)
  ELSE <<>>

\* a row that is not clipped to the strip
rasterize_row_unclipped(strip, shapes, width, y) ==
  row_loop(1, strip, shapes, width, y, QI(y), QI(y + 1))

rasterize_row(strip, shapes, width, y) ==
  LET y0 == QMax(QI(y), strip.y0)
      y1 == QMin(QI(y + 1), strip.y1)
  IN  row_loop(1, strip, shapes, width, y, y0, y1)

\* only the first row of the strip is rasterized
strip_loop_first_row(y, y1, strip, shapes, width) ==
  IF QLt(QI(y), y1) THEN rasterize_row(strip, shapes, width, y) ELSE <<>>

\* for (size_t y = y0; y < y1; ++y) rasterize_row(strip, pixmap, y)
RECURSIVE strip_loop(_, _, _, _, _)
strip_loop(y, y1, strip, shapes, width) ==
  IF QLt(QI(y), y1)
  THEN rasterize_row(strip, shapes, width, y) \o strip_loop(y + 1, y1, strip, shapes, width)
  ELSE <<>>

\* Pixmap::get_height; for a width of 0 the division either faults (see
\* GetHeightFault) or, where dividing by zero does not trap, gives 0
get_height(npixels, width) == IF width = 0 THEN 0 ELSE npixels \div width

\* rasterize_strip with the rows not clipped to the height of the pixmap
rasterize_strip_to_end(strip, shapes, width, npixels) ==
  LET y0 == QMax(strip.y0, QZero)
  IN  strip_loop(QTrunc(y0), strip.y1, strip, shapes, width)

\* rasterize_strip with the rows taken from the top of the pixmap
rasterize_strip_from_top(strip, shapes, width, npixels) ==
  LET y1 == QMin(strip.y1, QSub(QI(get_height(npixels, width)), QHalf))
  IN  strip_loop(0, y1, strip, shapes, width)

\* rasterize_strip: the add_pixel calls of one strip, in the order made
rasterize_strip(strip, shapes, width, npixels) ==
  LET y0 == QMax(strip.y0, QZero)
      y1 == QMin(strip.y1, QSub(QI(get_height(npixels, width)), QHalf))
  IN  strip_loop(QTrunc(y0), y1, strip, shapes, width)

\* Pixmap::add_pixel, for each call of a list in turn; a call whose index is
\* outside the pixel array is left out of the result
RECURSIVE add_pixels(_, _, _, _)
add_pixels(pixels, width, adds, k) ==
  IF k > Len(adds) THEN pixels
  ELSE LET i == adds[k].y * width + adds[k].x
       IN  add_pixels(IF i \in DOMAIN pixels
                      THEN [pixels EXCEPT ![i] = ColorAdd(@, adds[k].color)]
                      ELSE pixels,
                      width, adds, k + 1)

\* ------------------------------------------------------------------------
\* rasterize: collecting lines and events, the sweep
\* ------------------------------------------------------------------------

LINE_START == "LINE_START"
LINE_END == "LINE_END"

\* Event(type, y, index)
Event(type, y, index) == [type |-> type, y |-> y, index |-> index]

\* the segments of all shapes in the order of the two nested loops, each
\* with the position of its shape
RECURSIVE all_segments(_, _)
all_segments(shapes, k) ==
  IF k > Len(shapes) THEN <<>>
  ELSE [i \in 1..Len(shapes[k].segments) |-> [s |-> shapes[k].segments[i], shape |-> k]]
         \o all_segments(shapes, k + 1)

\* lines.push_back(RasterizeLine(s.line, +1 or -1, &shape))
collect_line(e) ==
  IF QLt(e.s.y0, e.s.y1)
  THEN RasterizeLine(e.s.line, 1, e.shape)
  ELSE RasterizeLine(e.s.line, -1, e.shape)

collect_lines(shapes) ==
  LET segs == all_segments(shapes, 1)
  IN  [i \in 1..Len(segs) |-> collect_line(segs[i])]

\* events pushed without ordering the two ends of the segment
collect_events_of_unordered(e, index) ==
  {Event(LINE_START, e.s.y0, index), Event(LINE_END, e.s.y1, index)}

\* the two events pushed for the segment that becomes lines[index]
collect_events_of(e, index) ==
  IF QLt(e.s.y0, e.s.y1)
  THEN {Event(LINE_START, e.s.y0, index), Event(LINE_END, e.s.y1, index)}
  ELSE {Event(LINE_START, e.s.y1, index), Event(LINE_END, e.s.y0, index)}

collect_events(shapes) ==
  LET segs == all_segments(shapes, 1)
  IN  UNION {collect_events_of(segs[i], i) : i \in 1..Len(segs)}

\* a queue ordered the other way round: the events of the greatest y on top
top_events_greatest(events) == {e \in events : \A f \in events : QLe(f.y, e.y)}

\* the events top() may return: operator > compares y alone, so any event
\* of the least y may be on top
top_events(events) == {e \in events : \A f \in events : QLe(e.y, f.y)}

\* the order by x alone, lines of equal x in any order
sort_less_by_x(l0, l1, y) == QLt(get_x(l0, y), get_x(l1, y))

\* the comparator of the sort
sort_less(l0, l1, y) ==
  LET x0 == get_x(l0, y)
      x1 == get_x(l1, y)
  IN  IF x0 = x1 THEN QLt(l0.m, l1.m) ELSE QLt(x0, x1)

\* the orders std::sort may leave the elements S of current_lines in: every
\* order in which no element is less than one before it
RECURSIVE sort_results(_, _, _)
sort_results(S, lines, y) ==
  IF S = {} THEN {<<>>}
  ELSE UNION {{<<a>> \o r : r \in sort_results(S \ {a}, lines, y)} :
                a \in {a \in S : \A b \in S : ~sort_less(lines[b], lines[a], y)}}

\* a sweep that does not look for intersections: every strip ends at the event
find_intersections_skipped(i, current, lines, y, next_y) == next_y

\* a sweep that takes an intersection at the current y for the end of the strip
RECURSIVE find_intersections_from_y(_, _, _, _, _)
find_intersections_from_y(i, current, lines, y, next_y) ==
  IF i < Len(current)
  THEN LET l0 == lines[current[i]]
           l1 == lines[current[i + 1]]
           intersection == intersect(l0, l1)
       IN  find_intersections_from_y(i + 1, current, lines, y,
             IF l0.m # l1.m /\ QLe(y, intersection) /\ QLt(intersection, next_y)
             THEN intersection ELSE next_y)
  ELSE next_y

\* find intersections: the loop over the adjacent pairs of the sorted lines
RECURSIVE find_intersections(_, _, _, _, _)
find_intersections(i, current, lines, y, next_y) ==
  IF i < Len(current)
  THEN LET l0 == lines[current[i]]
           l1 == lines[current[i + 1]]
           intersection == intersect(l0, l1)
       IN  find_intersections(i + 1, current, lines, y,
             IF l0.m # l1.m /\ QLt(y, intersection) /\ QLt(intersection, next_y)
             THEN intersection ELSE next_y)
  ELSE next_y

Range(f) == {f[i] : i \in DOMAIN f}

\* current_lines.erase(std::find(..., &lines[index])), the line being present
erase_line(current, index) ==
  LET k == CHOOSE k \in 1..Len(current) : current[k] = index /\ \A j \in 1..(k - 1) : current[j] # index
  IN  [j \in 1..(Len(current) - 1) |-> IF j < k THEN current[j] ELSE current[j + 1]]

\* ------------------------------------------------------------------------
\* The scenes rasterized
\* ------------------------------------------------------------------------

\* the canvas
Width == 4
Height == 3
\* how far outside the canvas a scene's points may lie
Margin == 1

Blue == Color(QZero, QZero, QOne, QOne)
Red == Color(QOne, QZero, QZero, QOne)
\* yellow at alpha 1/2, premultiplied
HalfYellow == Color(QHalf, QHalf, QZero, QHalf)
HalfRed == Color(QHalf, QZero, QZero, QHalf)

\* a path of the given subpaths, each a list of points, as move_to and
\* line_to build it
PathOf(pointlists) ==
  [t |-> Identity, subpaths |-> [k \in 1..Len(pointlists) |-> Subpath(pointlists[k], FALSE)]]

Draw(pointlists, paint) == [path |-> PathOf(pointlists), paint |-> paint]

Rect(x0, y0, x1, y1) == <<P(x0, y0), P(x1, y0), P(x1, y1), P(x0, y1)>>
Reverse(seq) == [i \in 1..Len(seq) |-> seq[Len(seq) + 1 - i]]

\* a pool of points: on and off the pixel grid, inside and outside the
\* canvas, two of them on one horizontal line
Pool ==
  << P(0, 0), P(Width, 0), P(Width + Margin, Height), P(1, Height + Margin),
     P(0 - Margin, 1), Point(Q(2 * Width - 1, 2), Q(3, 2)) >>

\* every triangle of the pool, in both orientations
Triangles ==
  LET n == Len(Pool)
      up == {<<Pool[i], Pool[j], Pool[k]>> : i, j, k \in 1..n}
  IN  {t \in up : \E i, j, k \in 1..n : i < j /\ j < k /\ t = <<Pool[i], Pool[j], Pool[k]>>}
      \cup {Reverse(t) : t \in {t \in up : \E i, j, k \in 1..n : i < j /\ j < k /\ t = <<Pool[i], Pool[j], Pool[k]>>}}

\* every quadrilateral of the pool in its three cyclic orders (two of them
\* cross themselves)
Quads ==
  LET n == Len(Pool)
      idx == {q \in (1..n) \X (1..n) \X (1..n) \X (1..n) : q[1] < q[2] /\ q[2] < q[3] /\ q[3] < q[4]}
  IN  UNION {{ <<Pool[q[1]], Pool[q[2]], Pool[q[3]], Pool[q[4]]>>,
               <<Pool[q[1]], Pool[q[3]], Pool[q[2]], Pool[q[4]]>>,
               <<Pool[q[1]], Pool[q[2]], Pool[q[4]], Pool[q[3]]>> } : q \in idx}

\* a five-pointed star: every edge crosses two others
Star == <<P(2, 0), P(3, Height), P(0, 1), P(Width, 2), P(1, Height)>>

CanvasRect == Rect(0, 0, Width, Height)
InnerRect == Rect(1, 1, Width - 1, Height - 1)
OuterRect == Rect(0 - Margin, 0 - Margin, Width + Margin, Height + Margin)
\* convex shapes that cover the canvas and reach beyond it
BigTriangle ==
  <<P(0 - Margin, 0 - Margin), P(2 * Width + 2 * Margin, 0 - Margin), P(0 - Margin, 2 * Height + 2 * Margin)>>
BigDiamond ==
  <<Point(Q(Width, 2), QI(0 - Height - Margin)), Point(QI(2 * Width + Margin), Q(Height, 2)),
    Point(Q(Width, 2), QI(2 * Height + Margin)), Point(QI(0 - Width - Margin), Q(Height, 2))>>

\* the two diagonals of the canvas and a vertical line through their crossing
BowTie == <<P(0, 0), P(Width, Height), P(Width, 0), P(0, Height)>>
Through == <<Point(Q(Width, 2), QZero), Point(Q(Width, 2), QI(Height)), P(Width + Margin, Height)>>

Orientations(poly) == {poly, Reverse(poly)}

SingleScenes ==
  {<<Draw(<<poly>>, Red)>> :
     poly \in Triangles \cup Quads \cup Orientations(Star) \cup Orientations(CanvasRect)
              \cup Orientations(OuterRect) \cup Orientations(BigTriangle) \cup Orientations(BigDiamond)}

\* one shape of two concentric rectangles, in every combination of windings
ConcentricScenes ==
  {<<Draw(<<outer, inner>>, Red)>> :
     outer \in Orientations(CanvasRect) \cup Orientations(OuterRect), inner \in Orientations(InnerRect)}

\* two overlapping shapes, in both insertion orders
PairPolys == {CanvasRect, InnerRect, Star, <<Pool[1], Pool[3], Pool[4]>>, <<Pool[4], Pool[2], Pool[5]>>}
PairScenes ==
  {<<Draw(<<a>>, c), Draw(<<b>>, d)>> :
     a \in {CanvasRect, <<Pool[1], Pool[3], Pool[4]>>}, b \in PairPolys \ {CanvasRect},
     c \in {Blue}, d \in {HalfYellow}}
  \cup {<<Draw(<<b>>, d), Draw(<<a>>, c)>> :
     a \in {CanvasRect}, b \in {InnerRect, Star}, c \in {Blue}, d \in {HalfYellow}}
  \cup {<<Draw(<<InnerRect>>, HalfRed), Draw(<<CanvasRect>>, HalfYellow)>>}
  \cup {<<Draw(<<BowTie>>, HalfRed), Draw(<<Through>>, HalfYellow)>>}

\* no shape; a shape without a segment; subpaths of one point and of two
OddScenes ==
  { <<>>,
    <<Draw(<<>>, Red)>>,
    <<Draw(<<<<P(1, 1)>>, <<Pool[1], Pool[3], Pool[4]>>, <<P(0, 2), P(Width, 2)>>>>, Red)>>,
    <<Draw(<<<<P(1, 0), P(2, Height)>>>>, Red)>> }

Scenes == SingleScenes \cup ConcentricScenes \cup PairScenes \cup OddScenes

\* ------------------------------------------------------------------------
\* Changed documents, for comparing two renderings
\* ------------------------------------------------------------------------

Transparent == Color0

InsertAt(seq, k, e) ==
  [i \in 1..(Len(seq) + 1) |-> IF i < k THEN seq[i] ELSE IF i = k THEN e ELSE seq[i - 1]]

\* shapes whose paint is transparent black, their edges crossing the canvas
TransparentPolys == {<<P(0, 0), P(Width, Height), P(0 - Margin, Height - 1)>>}

\* doc with a transparent shape inserted at any position of the insertion order
WithTransparent(d) ==
  {InsertAt(d, k, Draw(<<poly>>, Transparent)) : k \in 1..(Len(d) + 1), poly \in TransparentPolys}

\* the y of every event of the document's rendering
EventYs(d) ==
  LET segs == UNION {Range(fill(d[k].path, <<>>, d[k].paint)[1].segments) : k \in 1..Len(d)}
  IN  {s.y0 : s \in segs} \cup {s.y1 : s \in segs}

\* the point of the segment p-q at height yy
PointAt(p, q, yy) ==
  Point(QAdd(p.x, QMul(QSub(q.x, p.x), QDiv(QSub(yy, p.y), QSub(q.y, p.y)))), yy)

\* doc with one edge replaced by two collinear edges of the same direction
\* that meet at the y of an event of the document: edge i of subpath j of
\* draw request k runs from points[i] to points[i + 1], the last one back to
\* points[1]
WithSplitEdge(d) ==
  LET ys == EventYs(d)
  IN  { [d EXCEPT ![k].path.subpaths[j].points =
            InsertAt(@, i + 1, PointAt(@[i], @[(i % Len(@)) + 1], yy))] :
          <<k, j, i, yy>> \in
            { w \in (1..Len(d)) \X (1..3) \X (1..5) \X ys :
                /\ w[2] <= Len(d[w[1]].path.subpaths)
                /\ w[3] <= Len(d[w[1]].path.subpaths[w[2]].points)
                /\ LET pts == d[w[1]].path.subpaths[w[2]].points
                       p == pts[w[3]]
                       q == pts[(w[3] % Len(pts)) + 1]
                   IN  \/ QLt(p.y, w[4]) /\ QLt(w[4], q.y)
                       \/ QLt(q.y, w[4]) /\ QLt(w[4], p.y) } }

Variants(d) ==
  {[doc |-> v, change |-> "transparent"] : v \in WithTransparent(d)}
  \cup {[doc |-> v, change |-> "split"] : v \in WithSplitEdge(d)}

\* the documents rendered twice: some triangles, a shape that crosses
\* itself, concentric rectangles, two overlapping shapes, the odd scenes
TwiceScenes ==
  {<<Draw(<<poly>>, Red)>> :
     poly \in {<<Pool[1], Pool[3], Pool[4]>>, <<Pool[2], Pool[5], Pool[6]>>, <<Pool[4], Pool[6], Pool[1]>>,
               <<Pool[5], Pool[3], Pool[2]>>, <<Pool[1], Pool[3], Pool[2], Pool[4]>>}}
  \cup {<<Draw(<<CanvasRect, InnerRect>>, Red)>>, <<Draw(<<OuterRect, Reverse(InnerRect)>>, Red)>>}
  \cup {<<Draw(<<CanvasRect>>, Blue), Draw(<<InnerRect>>, HalfYellow)>>,
        <<Draw(<<Pool[1], Pool[3], Pool[4]>>, Blue), Draw(<<Pool[4], Pool[2], Pool[5]>>, HalfYellow)>>}
  \cup OddScenes

\* ------------------------------------------------------------------------
\* The program: a document is assembled, then rasterized
\* ------------------------------------------------------------------------

VARIABLES
  doc,            \* the draw requests of the document: <<[path, paint], ...>>
  shapes,         \* Document::shapes
  width, height,  \* the canvas handed to rasterize
  lines,          \* rasterize: lines
  events,         \* rasterize: the events still in the priority queue
  y,              \* rasterize: the current y
  event,          \* rasterize: the event popped last
  current_lines,  \* rasterize: indices into lines
  pixels,         \* Pixmap::pixels, indexed from 0
  strip,          \* the strip handed to rasterize_strip last
  strip_ids,      \* for each line of that strip, its index in lines
  adds,           \* the add_pixel calls rasterize_strip made for it
  pc,             \* where the program is
  run,            \* 1: the first rendering, 2: the rendering of a changed document
  ref,            \* the pixels the first rendering wrote
  change,         \* what the second document changes in the first
  path,           \* the Path under construction
  call,           \* the function called on its own and its arguments
  returned        \* what that call returned

vars == <<doc, shapes, width, height, lines, events, y, event, current_lines,
          pixels, strip, strip_ids, adds, pc, run, ref, change, path, call, returned>>

NoCall == [f |-> "none"]
NoEvent == Event(LINE_START, QZero, 0)
NoStrip == Strip(QZero, QZero, <<>>)

Init ==
  /\ doc \in Scenes
  /\ shapes = <<>>
  /\ width = Width
  /\ height = Height
  /\ lines = <<>>
  /\ events = {}
  /\ y = QZero
  /\ event = NoEvent
  /\ current_lines = <<>>
  /\ pixels = <<>>
  /\ strip = NoStrip
  /\ strip_ids = <<>>
  /\ adds = <<>>
  /\ pc = "assemble"
  /\ run = 1
  /\ ref = <<>>
  /\ change = "none"
  /\ path = Path(Identity)
  /\ call = NoCall
  /\ returned = NoCall

\* Document::fill(path, paint) for the next draw request
FillShape ==
  /\ pc = "assemble"
  /\ Len(shapes) < Len(doc)
  /\ shapes' = fill(doc[Len(shapes) + 1].path, shapes, doc[Len(shapes) + 1].paint)
  /\ UNCHANGED <<doc, width, height, lines, events, y, event, current_lines, pixels, strip, strip_ids, adds, pc, run, ref, change, path, call, returned>>

\* rasterize up to the sweep loop: lines and events are collected, the
\* pixmap is made, y starts at the least event
Collect ==
  /\ pc = "assemble"
  /\ Len(shapes) = Len(doc)
  /\ lines' = collect_lines(shapes)
  /\ events' = collect_events(shapes)
  /\ pixels' = [i \in 0..(width * height - 1) |-> Color0]
  /\ y' = IF events' = {} THEN QZero ELSE (CHOOSE e \in top_events(events') : TRUE).y
  /\ current_lines' = <<>>
  /\ pc' = "loop"
  /\ UNCHANGED <<doc, shapes, width, height, event, strip, strip_ids, adds, run, ref, change, path, call, returned>>

\* Event event = events.top(); events.pop();
PopEvent ==
  /\ pc = "loop"
  /\ events # {}
  /\ \E e \in top_events(events) :
       /\ event' = e
       /\ events' = events \ {e}
  /\ pc' = "event"
  /\ UNCHANGED <<doc, shapes, width, height, lines, y, current_lines, pixels, strip, strip_ids, adds, run, ref, change, path, call, returned>>

\* one iteration of while (y < event.y): sort, find intersections, rasterize the strip
EmitStrip ==
  /\ pc = "event"
  /\ QLt(y, event.y)
  /\ \E sorted \in sort_results(Range(current_lines), lines, y) :
       LET next_y == find_intersections(1, sorted, lines, y, event.y)
           st == Strip(y, next_y, [i \in 1..Len(sorted) |-> lines[sorted[i]]])
           calls == rasterize_strip(st, shapes, width, Cardinality(DOMAIN pixels))
       IN  /\ current_lines' = sorted
           /\ strip' = st
           /\ strip_ids' = sorted
           /\ adds' = calls
           /\ pixels' = add_pixels(pixels, width, calls, 1)
           /\ y' = next_y
  /\ UNCHANGED <<doc, shapes, width, height, lines, events, event, pc, run, ref, change, path, call, returned>>

\* case Event::Type::LINE_START
LineStart ==
  /\ pc = "event"
  /\ ~QLt(y, event.y)
  /\ event.type = LINE_START
  /\ current_lines' = Append(current_lines, event.index)
  /\ pc' = "loop"
  /\ UNCHANGED <<doc, shapes, width, height, lines, events, y, event, pixels, strip, strip_ids, adds, run, ref, change, path, call, returned>>

\* case Event::Type::LINE_END
LineEnd ==
  /\ pc = "event"
  /\ ~QLt(y, event.y)
  /\ event.type = LINE_END
  /\ event.index \in Range(current_lines)
  /\ current_lines' = erase_line(current_lines, event.index)
  /\ pc' = "loop"
  /\ UNCHANGED <<doc, shapes, width, height, lines, events, y, event, pixels, strip, strip_ids, adds, run, ref, change, path, call, returned>>

\* write_png(pixmap, file_name)
WritePng ==
  /\ pc = "loop"
  /\ events = {}
  /\ pc' = "done"
  /\ UNCHANGED <<doc, shapes, width, height, lines, events, y, event, current_lines, pixels, strip, strip_ids, adds, run, ref, change, path, call, returned>>

\* the program is run again on a changed document, the pixels of the first
\* run kept for comparison
Rerun ==
  /\ pc = "done"
  /\ run = 1
  /\ \E v \in Variants(doc) :
       /\ doc' = v.doc
       /\ change' = v.change
  /\ run' = 2
  /\ ref' = pixels
  /\ shapes' = <<>>
  /\ lines' = <<>>
  /\ events' = {}
  /\ y' = QZero
  /\ event' = NoEvent
  /\ current_lines' = <<>>
  /\ pixels' = <<>>
  /\ strip' = NoStrip
  /\ strip_ids' = <<>>
  /\ adds' = <<>>
  /\ pc' = "assemble"
  /\ UNCHANGED <<width, height, path, call, returned>>

Next ==
  \/ FillShape
  \/ Collect
  \/ PopEvent
  \/ EmitStrip
  \/ LineStart
  \/ LineEnd
  \/ WritePng

Spec == Init /\ [][Next]_vars

\* the documents rendered twice
InitTwice ==
  /\ Init
  /\ doc \in TwiceScenes

NextTwice == Next \/ Rerun

SpecTwice == InitTwice /\ [][NextTwice]_vars

\* ------------------------------------------------------------------------
\* Properties
\* ------------------------------------------------------------------------

QMid(a, b) == QMul(QAdd(a, b), QHalf)
SegMin(s) == QMin(s.y0, s.y1)
SegMax(s) == QMax(s.y0, s.y1)
\* the segment that became lines[i]
SegmentOfLine(i) == all_segments(shapes, 1)[i].s

\* C1: in every strip handed to rasterize_strip, every pair of lines (adjacent
\* in the sorted order or not) is in non-decreasing order of x at the strip's
\* lower end, at its upper end and in between: no two lines cross inside the
\* strip, and the strip is not empty
C1_NoCrossingInsideStrip ==
  strip # NoStrip =>
    /\ QLt(strip.y0, strip.y1)
    /\ \A i, j \in 1..Len(strip.lines) :
         i < j =>
           \A yy \in {strip.y0, QMid(strip.y0, strip.y1), strip.y1} :
             QLe(get_x(strip.lines[i], yy), get_x(strip.lines[j], yy))

\* a strip of three or more lines that an intersection ended before the event,
\* two lines that are not adjacent meeting at its upper end
C1_Witness ==
  /\ pc = "event"
  /\ strip # NoStrip
  /\ y = strip.y1
  /\ QLt(strip.y1, event.y)
  /\ \E i, j \in 1..Len(strip.lines) :
       /\ i + 1 < j
       /\ strip.lines[i].m # strip.lines[j].m
       /\ get_x(strip.lines[i], strip.y1) = get_x(strip.lines[j], strip.y1)

\* C2: every line has exactly two events when the sweep starts, LINE_START at
\* the lesser and LINE_END at the greater y of its segment, and the lines of
\* every strip are exactly the lines whose segment spans the strip, each once
C2_ActiveSetSpansStrip ==
  /\ (pc = "loop" /\ event = NoEvent) =>
       \A i \in 1..Len(lines) :
         {e \in events : e.index = i}
           = {Event(LINE_START, SegMin(SegmentOfLine(i)), i), Event(LINE_END, SegMax(SegmentOfLine(i)), i)}
  /\ (pc = "loop" /\ event = NoEvent) => Cardinality(events) = 2 * Len(lines)
  /\ strip # NoStrip =>
       LET spanning == {i \in 1..Len(lines) :
                          /\ QLe(SegMin(SegmentOfLine(i)), strip.y0)
                          /\ QLe(strip.y1, SegMax(SegmentOfLine(i)))}
       IN  /\ Range(strip_ids) = spanning
           /\ Len(strip_ids) = Cardinality(spanning)
           /\ Len(strip.lines) = Len(strip_ids)
           /\ \A k \in 1..Len(strip_ids) : strip.lines[k] = lines[strip_ids[k]]

\* a strip of several lines while other lines have ended and others not begun
C2_Witness ==
  /\ strip # NoStrip
  /\ Len(strip_ids) >= 2
  /\ \E i \in 1..Len(lines) : QLe(SegMax(SegmentOfLine(i)), strip.y0)
  /\ \E i \in 1..Len(lines) : QLe(strip.y1, SegMin(SegmentOfLine(i)))
  /\ \E i \in Range(strip_ids) : lines[i].direction = -1

\* the winding of a shape over the first i lines of the strip
RECURSIVE WindingUpTo(_, _)
WindingUpTo(shape, i) ==
  IF i = 0 THEN 0
  ELSE WindingUpTo(shape, i - 1) + (IF strip.lines[i].shape = shape THEN strip.lines[i].direction ELSE 0)

\* the shapes inside which the trapezoid right of line i lies
ActiveShapes(i) == {k \in 1..Len(shapes) : WindingUpTo(k, i) # 0}

\* Porter-Duff over, from transparent black, of the paints of the shapes of
\* a set taken in the order of insertion
RECURSIVE OverInOrder(_, _, _)
OverInOrder(active, k, color) ==
  IF k > Len(shapes) THEN color
  ELSE OverInOrder(active, k + 1,
         IF k \in active
         THEN ColorAdd(shapes[k].paint, ColorMul(color, QSub(QOne, shapes[k].paint.a)))
         ELSE color)

PixelAt(x, yy) == pixels[yy * width + x]
InsideInner(x, yy) == 1 <= x /\ x < Width - 1 /\ 1 <= yy /\ yy < Height - 1
AllPixels == (0..(Width - 1)) \X (0..(Height - 1))

\* C3: every add_pixel call adds the coverage times the over-fold of the
\* paints of the active shapes in insertion order; blue below half-alpha
\* yellow gives blend(blue, yellow/2) in the overlap and blue in the ring
C3_BlendInInsertionOrder ==
  /\ \A k \in 1..Len(adds) :
       /\ adds[k].paint = OverInOrder(ActiveShapes(adds[k].i), 1, Color0)
       /\ adds[k].color = ColorMul(adds[k].paint, adds[k].factor)
  /\ (pc = "done" /\ doc = <<Draw(<<CanvasRect>>, Blue), Draw(<<InnerRect>>, HalfYellow)>>) =>
       \A p \in AllPixels :
         PixelAt(p[1], p[2]) = IF InsideInner(p[1], p[2])
                               THEN Color(QHalf, QHalf, QHalf, QOne)
                               ELSE Blue

\* a pixel inside two shapes whose paints do not commute, the edge of the
\* shape inserted second met first
C3_Witness ==
  \E k \in 1..Len(adds) :
    /\ ActiveShapes(adds[k].i) = {1, 2}
    /\ strip.lines[1].shape = 2
    /\ QLt(QZero, adds[k].factor)
    /\ blend(blend(Color0, shapes[1].paint), shapes[2].paint)
         # blend(blend(Color0, shapes[2].paint), shapes[1].paint)

\* twice the signed area of a polygon (the shoelace formula)
RECURSIVE Shoelace(_, _)
Shoelace(points, i) ==
  IF i > Len(points) THEN QZero
  ELSE LET p == points[i]
           q == points[(i % Len(points)) + 1]
       IN  QAdd(QSub(QMul(p.x, q.y), QMul(q.x, p.y)), Shoelace(points, i + 1))

SameWinding(a, b) == QLt(QZero, QMul(Shoelace(a, 1), Shoelace(b, 1)))

\* one shape of two subpaths: a rectangle that contains the canvas, and the
\* rectangle from (1, 1) to (Width - 1, Height - 1)
IsConcentric(d) ==
  /\ Len(d) = 1
  /\ Len(d[1].path.subpaths) = 2
  /\ d[1].path.subpaths[1].points \in Orientations(CanvasRect) \cup Orientations(OuterRect)
  /\ d[1].path.subpaths[2].points \in Orientations(InnerRect)

\* C4: the non-zero rule within one shape: two concentric rectangles of the
\* same winding cover every pixel inside the outer one fully, the inner one
\* included; of opposite winding, the inner one is a hole and the ring around
\* it is covered
C4_NonZeroRule ==
  (pc = "done" /\ IsConcentric(doc)) =>
    \A p \in AllPixels :
      PixelAt(p[1], p[2]) =
        IF SameWinding(doc[1].path.subpaths[1].points, doc[1].path.subpaths[2].points)
        THEN doc[1].paint
        ELSE IF InsideInner(p[1], p[2]) THEN Color0 ELSE doc[1].paint

\* opposite windings rendered: a hole with a covered ring around it
C4_Witness ==
  /\ pc = "done"
  /\ IsConcentric(doc)
  /\ ~SameWinding(doc[1].path.subpaths[1].points, doc[1].path.subpaths[2].points)
  /\ \E p \in AllPixels : InsideInner(p[1], p[2]) /\ PixelAt(p[1], p[2]) = Color0
  /\ \E p \in AllPixels : ~InsideInner(p[1], p[2]) /\ PixelAt(p[1], p[2]) = Red

\* the y of every point of the path that shape k was filled from
VertexYs(k) ==
  UNION {{Apply(doc[k].path.t, sp.points[i]).y : i \in 1..Len(sp.points)} : sp \in Range(doc[k].path.subpaths)}

\* heights between two vertices that are no vertex's height
NonVertexYs(k) == {QMid(a, b) : a, b \in VertexYs(k)} \ VertexYs(k)

SegDirection(s) == IF QLt(s.y0, s.y1) THEN 1 ELSE -1

\* the sum of direction over the first n segments that cross the horizontal line at yy
RECURSIVE CrossingSum(_, _, _)
CrossingSum(segments, n, yy) ==
  IF n = 0 THEN 0
  ELSE CrossingSum(segments, n - 1, yy)
       + (IF QLt(SegMin(segments[n]), yy) /\ QLt(yy, SegMax(segments[n]))
          THEN SegDirection(segments[n]) ELSE 0)

\* C5: the directions of a filled shape's edges that cross a horizontal line at
\* a height that is no vertex's sum to 0; in every strip each shape's winding
\* is back at 0 after its right-most line, and no trapezoid is painted with a
\* shape that has no line further right
C5_WindingClosesPerShape ==
  /\ \A k \in 1..Len(shapes) :
       \A yy \in NonVertexYs(k) :
         CrossingSum(shapes[k].segments, Len(shapes[k].segments), yy) = 0
  /\ strip # NoStrip =>
       \A k \in 1..Len(shapes) : WindingUpTo(k, Len(strip.lines)) = 0
  /\ \A a \in 1..Len(adds) :
       \A k \in DOMAIN adds[a].map :
         \E j \in 1..Len(strip.lines) : j > adds[a].i /\ strip.lines[j].shape = k

\* a strip in which a shape ends left of another shape's lines, pixels being
\* painted right of it
C5_Witness ==
  /\ Len(shapes) = 2
  /\ \E a \in 1..Len(adds) :
       \E k \in 1..Len(shapes) :
         /\ k \notin DOMAIN adds[a].map
         /\ \E j \in 1..Len(strip.lines) : j <= adds[a].i /\ strip.lines[j].shape = k
         /\ QLt(QZero, adds[a].factor)

QClamp(u, lo, hi) == IF QLt(u, lo) THEN lo ELSE IF QLt(hi, u) THEN hi ELSE u

\* an antiderivative of u |-> clamp(u, lo, hi)
ClampPrimitive(u, lo, hi) ==
  IF QLt(u, lo) THEN QMul(lo, u)
  ELSE IF QLe(u, hi) THEN QMul(QAdd(QMul(u, u), QMul(lo, lo)), QHalf)
  ELSE QAdd(QMul(hi, u), QMul(QSub(QMul(lo, lo), QMul(hi, hi)), QHalf))

\* the integral over a height h of clamp(f, lo, hi), f linear from a to b
ClampIntegral(a, b, lo, hi, h) ==
  IF a = b THEN QMul(h, QClamp(a, lo, hi))
  ELSE QMul(h, QDiv(QSub(ClampPrimitive(b, lo, hi), ClampPrimitive(a, lo, hi)), QSub(b, a)))

\* the part of row yy that lies in the strip
RowLow(yy) == QMax(QI(yy), strip.y0)
RowHigh(yy) == QMin(QI(yy + 1), strip.y1)

\* the area between lines i and i + 1 of the strip, within row yy and
\* within pixel column x
ExactPixelArea(i, x, yy) ==
  LET l == strip.lines[i]
      r == strip.lines[i + 1]
      h == QSub(RowHigh(yy), RowLow(yy))
  IN  QSub(ClampIntegral(get_x(r, RowLow(yy)), get_x(r, RowHigh(yy)), QI(x), QI(x + 1), h),
           ClampIntegral(get_x(l, RowLow(yy)), get_x(l, RowHigh(yy)), QI(x), QI(x + 1), h))

\* the area between lines i and i + 1 of the strip within row yy
ExactRowArea(i, yy) ==
  LET l == strip.lines[i]
      r == strip.lines[i + 1]
  IN  QMul(QMul(QSub(RowHigh(yy), RowLow(yy)),
                QSub(QAdd(get_x(r, RowLow(yy)), get_x(r, RowHigh(yy))),
                     QAdd(get_x(l, RowLow(yy)), get_x(l, RowHigh(yy))))),
           QHalf)

\* the sum of the factors of the calls adds[1 .. n] made for trapezoid i of row yy
RECURSIVE FactorSum(_, _, _)
FactorSum(i, yy, n) ==
  IF n = 0 THEN QZero
  ELSE QAdd(FactorSum(i, yy, n - 1),
            IF adds[n].i = i /\ adds[n].y = yy THEN adds[n].factor ELSE QZero)

\* C6: for every pixel column visited for a trapezoid, the factor is the exact
\* area of the trapezoid inside the pixel, between 0 and 1; when the trapezoid
\* lies within the canvas's x-range the factors of its columns sum to its area
C6_ExactPixelArea ==
  \A a \in 1..Len(adds) :
    /\ adds[a].factor = ExactPixelArea(adds[a].i, adds[a].x, adds[a].y)
    /\ QLe(QZero, adds[a].factor)
    /\ QLe(adds[a].factor, QOne)
    /\ (QLe(QZero, adds[a].trapezoid.x0) /\ QLe(adds[a].trapezoid.x3, QI(width))) =>
         /\ FactorSum(adds[a].i, adds[a].y, Len(adds)) = ExactRowArea(adds[a].i, adds[a].y)
         /\ FactorSum(adds[a].i, adds[a].y, Len(adds)) = get_area(adds[a].trapezoid)

\* a pixel that a slanted left edge passes through from its left side to its
\* right side, of a trapezoid within the canvas that spans several columns
C6_Witness ==
  \E a \in 1..Len(adds) :
    /\ QLt(QZero, adds[a].factor)
    /\ QLt(adds[a].factor, QOne)
    /\ QLe(adds[a].trapezoid.x0, QI(adds[a].x))
    /\ QLt(QI(adds[a].x + 1), adds[a].trapezoid.x1)
    /\ QLe(QZero, adds[a].trapezoid.x0)
    /\ QLe(adds[a].trapezoid.x3, QI(width))
    /\ get_x(strip.lines[adds[a].i], RowLow(adds[a].y)) = adds[a].trapezoid.x1

Cross(o, a, b) ==
  QSub(QMul(QSub(a.x, o.x), QSub(b.y, o.y)), QMul(QSub(a.y, o.y), QSub(b.x, o.x)))

CanvasCorners == {P(0, 0), P(Width, 0), P(Width, Height), P(0, Height)}

\* a convex polygon that contains the canvas: it turns one way at every
\* vertex and every corner of the canvas is on the inner side of every edge
ConvexCover(points) ==
  /\ Len(points) >= 3
  /\ \E sgn \in {QOne, QNeg(QOne)} :
       \A i \in 1..Len(points) :
         LET p == points[i]
             q == points[(i % Len(points)) + 1]
             r == points[((i + 1) % Len(points)) + 1]
         IN  /\ QLt(QZero, QMul(sgn, Cross(p, q, r)))
             /\ \A c \in CanvasCorners : QLe(QZero, QMul(sgn, Cross(p, q, c)))

RECURSIVE AlphaSum(_)
AlphaSum(n) == IF n = 0 THEN QZero ELSE QAdd(AlphaSum(n - 1), pixels[n - 1].a)

IsSingleCover(d) ==
  /\ Len(d) = 1
  /\ Len(d[1].path.subpaths) = 1
  /\ d[1].paint.a = QOne
  /\ ConvexCover(d[1].path.subpaths[1].points)

\* C7: a single convex shape with an opaque paint that covers the canvas,
\* reaching beyond it or not, gives every pixel coverage exactly 1: every pixel
\* is the paint, and the alphas sum to width * height
C7_ConservationOfArea ==
  (pc = "done" /\ IsSingleCover(doc)) =>
    /\ \A p \in AllPixels : PixelAt(p[1], p[2]) = doc[1].paint
    /\ AlphaSum(width * height) = QI(width * height)

\* a covering shape that reaches beyond the canvas, one of its vertices at a
\* height inside a pixel row
C7_Witness ==
  /\ pc = "done"
  /\ IsSingleCover(doc)
  /\ \E i \in 1..Len(doc[1].path.subpaths[1].points) :
       LET p == doc[1].path.subpaths[1].points[i]
       IN  /\ p.y[2] # 1
           /\ QLt(QZero, p.y)
           /\ QLt(p.y, QI(Height))
  /\ \E i \in 1..Len(doc[1].path.subpaths[1].points) :
       QLt(doc[1].path.subpaths[1].points[i].x, QZero)

\* C8: a shape whose paint is transparent black, added to the document at any
\* position of the insertion order, leaves every pixel as it was
C8_TransparentShapeChangesNothing ==
  (pc = "done" /\ run = 2 /\ change = "transparent") => pixels = ref

\* a transparent shape rendered between two painted shapes, over painted pixels
C8_Witness ==
  /\ pc = "done"
  /\ run = 2
  /\ change = "transparent"
  /\ Len(doc) = 3
  /\ doc[2].paint = Transparent
  /\ \E p \in AllPixels : ref[p[2] * width + p[1]] # Color0

\* C9: an edge replaced by two collinear edges of its direction that meet at
\* the height where another edge starts or ends leaves every pixel as it was
C9_SplitEdgeChangesNothing ==
  (pc = "done" /\ run = 2 /\ change = "split") => pixels = ref

\* an edge split strictly inside at the height of another edge's end, the
\* rendering having painted pixels
C9_Witness ==
  /\ pc = "done"
  /\ run = 2
  /\ change = "split"
  /\ \E p \in AllPixels : ref[p[2] * width + p[1]] \notin {Color0, Red, Blue}
  /\ \E k \in 1..Len(shapes) :
       \E a, b \in 1..Len(shapes[k].segments) :
         /\ a # b
         /\ shapes[k].segments[a].y1 = shapes[k].segments[b].y0
         /\ get_x(shapes[k].segments[a].line, shapes[k].segments[a].y1)
              = get_x(shapes[k].segments[b].line, shapes[k].segments[b].y0)
         /\ shapes[k].segments[a].line.m = shapes[k].segments[b].line.m

\* ------------------------------------------------------------------------
\* Paths built by the operations of Path, then filled and stroked as
\* Document::draw does: the calls that make shapes come after the path is built
\* ------------------------------------------------------------------------

MaxPoints == 3
MaxShapes == 1

\* the points handed to move_to and line_to: every distance between two of
\* them is rational
PathPoints == {P(0, 0), P(4, 0), P(4, 3)}

\* the values a read outside a vector's storage may give
StrayPoints == {P(0, 0), P(4, 3)}

\* the transformations of the paths: none, and a quarter turn, which makes
\* vertical edges horizontal
PathTransformations == {Identity, Transformation(QZero, QOne, QNeg(QOne), QZero, QZero, QZero)}

StrokeWidths == {QI(2)}

RECURSIVE CountPoints(_, _)
CountPoints(subpaths, k) ==
  IF k > Len(subpaths) THEN 0 ELSE Len(subpaths[k].points) + CountPoints(subpaths, k + 1)

InitPath ==
  /\ doc = <<>>
  /\ shapes = <<>>
  /\ width = Width
  /\ height = Height
  /\ lines = <<>>
  /\ events = {}
  /\ y = QZero
  /\ event = NoEvent
  /\ current_lines = <<>>
  /\ pixels = <<>>
  /\ strip = NoStrip
  /\ strip_ids = <<>>
  /\ adds = <<>>
  /\ pc = "path"
  /\ run = 1
  /\ ref = <<>>
  /\ change = "none"
  /\ path \in {Path(t) : t \in PathTransformations}
  /\ call = NoCall
  /\ returned = NoCall

\* path.move_to(p)
MoveTo ==
  /\ pc = "path"
  /\ CountPoints(path.subpaths, 1) < MaxPoints
  /\ \E p \in PathPoints : path' = move_to(path, p)
  /\ UNCHANGED <<doc, shapes, width, height, lines, events, y, event, current_lines, pixels, strip, strip_ids, adds, pc, run, ref, change, call, returned>>

\* path.line_to(p)
LineTo ==
  /\ pc = "path"
  /\ CountPoints(path.subpaths, 1) + 1 < MaxPoints
  /\ \E p \in PathPoints : path' = line_to(path, p)
  /\ UNCHANGED <<doc, shapes, width, height, lines, events, y, event, current_lines, pixels, strip, strip_ids, adds, pc, run, ref, change, call, returned>>

\* path.close(); subpaths.back() of a path with no subpaths is outside the
\* storage, and the write there faults or is not seen
Close ==
  /\ pc = "path"
  /\ IF path.subpaths = <<>>
     THEN /\ pc' \in {"path", "crashed"}
          /\ path' = path
     ELSE /\ path' = close(path)
          /\ pc' = pc
  /\ UNCHANGED <<doc, shapes, width, height, lines, events, y, event, current_lines, pixels, strip, strip_ids, adds, run, ref, change, call, returned>>

\* Document::fill(path, paint), of the path as built
Fill ==
  /\ pc \in {"path", "draw"}
  /\ Len(shapes) < MaxShapes
  /\ shapes' = fill(path, shapes, Red)
  /\ pc' = "draw"
  /\ UNCHANGED <<doc, width, height, lines, events, y, event, current_lines, pixels, strip, strip_ids, adds, run, ref, change, path, call, returned>>

\* Document::stroke(path, paint, width), of the path as built
Stroke ==
  /\ pc \in {"path", "draw"}
  /\ Len(shapes) < MaxShapes
  /\ \E w \in StrokeWidths :
       \E g0, g1 \in StrayPoints :
         \E result \in stroke(path, shapes, w, Blue, <<g0, g1>>) :
           /\ pc' = IF result.crashed THEN "crashed" ELSE "draw"
           /\ shapes' = result.shapes
  /\ UNCHANGED <<doc, width, height, lines, events, y, event, current_lines, pixels, strip, strip_ids, adds, run, ref, change, path, call, returned>>

NextPath ==
  \/ MoveTo
  \/ LineTo
  \/ Close
  \/ Fill
  \/ Stroke

SpecPath == InitPath /\ [][NextPath]_vars

\* C10: no horizontal segment enters the rasterizer: whatever the path
\* operations, and for fill and for stroke, every segment stored in a shape has
\* y0 # y1 and a line of finite slope
C10_NoHorizontalSegment ==
  \A k \in 1..Len(shapes) :
    \A i \in 1..Len(shapes[k].segments) :
      /\ shapes[k].segments[i].y0 # shapes[k].segments[i].y1
      /\ IsFinite(shapes[k].segments[i].line.m)

\* a shape of a path of one subpath whose chain of segments has a gap along a
\* horizontal line: an edge between two points of equal transformed y was dropped
C10_Witness ==
  /\ Len(path.subpaths) = 1
  /\ \E k \in 1..Len(shapes) :
       \E i \in 1..(Len(shapes[k].segments) - 1) :
         LET a == shapes[k].segments[i]
             b == shapes[k].segments[i + 1]
         IN  /\ a.y1 = b.y0
             /\ get_x(a.line, a.y1) # get_x(b.line, b.y0)

\* ------------------------------------------------------------------------
\* Concrete scenes, each with a canvas of its own
\* ------------------------------------------------------------------------

White == Color(QOne, QOne, QOne, QOne)

\* the polygon started at its (k + 1)-th point
Rotate(poly, k) == [i \in 1..Len(poly) |-> poly[((i + k - 1) % Len(poly)) + 1]]

\* the ways to give the edges of a polygon: either direction, any first point
Outlines(poly) == UNION {Orientations(Rotate(poly, k)) : k \in 0..(Len(poly) - 1)}

Scenario(d, w, h) == [doc |-> d, width |-> w, height |-> h]

Square == Rect(2, 2, 8, 8)
Triangle == <<P(0, 0), P(3, 0), P(0, 3)>>

\* the square [2,2]-[8,8] in opaque red on a canvas of 10 x 10
SquareScenarios == {Scenario(<<Draw(<<poly>>, Red)>>, 10, 10) : poly \in Outlines(Square)}

\* the triangle (0,0), (3,0), (0,3) in opaque white on a canvas of 3 x 3
TriangleScenarios == {Scenario(<<Draw(<<poly>>, White)>>, 3, 3) : poly \in Outlines(Triangle)}

Scenarios == SquareScenarios \cup TriangleScenarios

InitScenario ==
  /\ \E s \in Scenarios :
       /\ doc = s.doc
       /\ width = s.width
       /\ height = s.height
  /\ shapes = <<>>
  /\ lines = <<>>
  /\ events = {}
  /\ y = QZero
  /\ event = NoEvent
  /\ current_lines = <<>>
  /\ pixels = <<>>
  /\ strip = NoStrip
  /\ strip_ids = <<>>
  /\ adds = <<>>
  /\ pc = "assemble"
  /\ run = 1
  /\ ref = <<>>
  /\ change = "none"
  /\ path = Path(Identity)
  /\ call = NoCall
  /\ returned = NoCall

SpecScenario == InitScenario /\ [][Next]_vars

IsSquareScene == doc \in {s.doc : s \in SquareScenarios} /\ width = 10 /\ height = 10
IsTriangleScene == doc \in {s.doc : s \in TriangleScenarios} /\ width = 3 /\ height = 3

CanvasPixels == (0..(width - 1)) \X (0..(height - 1))

\* C11: the square [2,2]-[8,8] in opaque red on a canvas of 10 x 10: the
\* pixels with 2 <= x <= 7 and 2 <= y <= 7 are (1, 0, 0, 1), the rows and
\* columns 2 and 7 included, and every other pixel is 0
C11_SquareScenario ==
  (pc = "done" /\ IsSquareScene) =>
    \A p \in CanvasPixels :
      PixelAt(p[1], p[2]) =
        IF 2 <= p[1] /\ p[1] <= 7 /\ 2 <= p[2] /\ p[2] <= 7 THEN Red ELSE Color0

\* C11 as stated: the pixels with 3 <= x <= 7 and 3 <= y <= 7 are (1, 0, 0, 1),
\* the pixels of the square in the rows and columns 2 and 7 have alpha 1/2,
\* every other pixel is 0
C11_AsStated ==
  (pc = "done" /\ IsSquareScene) =>
    \A p \in CanvasPixels :
      LET x == p[1]
          yy == p[2]
          inner == 3 <= x /\ x <= 7 /\ 3 <= yy /\ yy <= 7
          edge == 2 <= x /\ x <= 7 /\ 2 <= yy /\ yy <= 7 /\ (x \in {2, 7} \/ yy \in {2, 7})
      IN  /\ inner => PixelAt(x, yy) = Red
          /\ (edge /\ ~inner) => PixelAt(x, yy).a = QHalf
          /\ (~edge /\ ~inner) => PixelAt(x, yy) = Color0

\* the square rendered: its corner pixel (2, 2) fully covered
C11_Witness ==
  /\ pc = "done"
  /\ IsSquareScene
  /\ PixelAt(2, 2) = Red
  /\ PixelAt(7, 7) = Red
  /\ PixelAt(8, 8) = Color0

\* C12: the triangle (0,0), (3,0), (0,3) in opaque white on a canvas of 3 x 3:
\* pixel (x, y) has alpha 1 when x + y <= 1, alpha 1/2 when x + y = 2 (the
\* hypotenuse crosses it) and alpha 0 otherwise
C12_TriangleScenario ==
  (pc = "done" /\ IsTriangleScene) =>
    \A p \in CanvasPixels :
      PixelAt(p[1], p[2]) =
        IF p[1] + p[2] <= 1 THEN White
        ELSE IF p[1] + p[2] = 2 THEN ColorMul(White, QHalf)
        ELSE Color0

\* C12 as stated: alpha 1/2 at (0,0), (1,0), (0,1) and (1,1), alpha 1/8 at
\* (2,0) and (0,2), alpha 0 elsewhere
C12_AsStated ==
  (pc = "done" /\ IsTriangleScene) =>
    \A p \in CanvasPixels :
      PixelAt(p[1], p[2]).a =
        IF p \in {<<0, 0>>, <<1, 0>>, <<0, 1>>, <<1, 1>>} THEN QHalf
        ELSE IF p \in {<<2, 0>>, <<0, 2>>} THEN Q(1, 8)
        ELSE QZero

\* the triangle rendered: (0, 0) fully covered, (2, 0) half covered
C12_Witness ==
  /\ pc = "done"
  /\ IsTriangleScene
  /\ PixelAt(0, 0) = White
  /\ PixelAt(2, 0).a = QHalf
  /\ PixelAt(1, 1).a = QHalf

\* ------------------------------------------------------------------------
\* Float values with the special values of IEEE 754: <<0, 0>> is NaN,
\* <<1, 0>> is +infinity, <<-1, 0>> is -infinity; finite values are exact
\* ------------------------------------------------------------------------

NaN == <<0, 0>>
PosInf == <<1, 0>>
NegInf == <<-1, 0>>
IsNaN(a) == a = NaN
IsFin(a) == a[2] # 0
Sign(a) == IF a[1] > 0 THEN 1 ELSE IF a[1] < 0 THEN -1 ELSE 0
InfOf(sgn) == IF sgn < 0 THEN NegInf ELSE PosInf

\* operator + of float
FAdd(a, b) ==
  IF IsNaN(a) \/ IsNaN(b) THEN NaN
  ELSE IF IsFin(a) /\ IsFin(b) THEN QAdd(a, b)
  ELSE IF IsFin(a) THEN b
  ELSE IF IsFin(b) THEN a
  ELSE IF a = b THEN a ELSE NaN

\* operator - of float, unary and binary
FNeg(a) == <<0 - a[1], a[2]>>
FSub(a, b) == FAdd(a, FNeg(b))

\* operator * of float
FMul(a, b) ==
  IF IsNaN(a) \/ IsNaN(b) THEN NaN
  ELSE IF IsFin(a) /\ IsFin(b) THEN QMul(a, b)
  ELSE IF Sign(a) = 0 \/ Sign(b) = 0 THEN NaN
  ELSE InfOf(Sign(a) * Sign(b))

\* operator / of float; a zero divisor counts as +0
FDiv(a, b) ==
  IF IsNaN(a) \/ IsNaN(b) THEN NaN
  ELSE IF IsFin(a) /\ IsFin(b)
       THEN IF Sign(b) # 0 THEN Q(a[1] * b[2], a[2] * b[1])
            ELSE IF Sign(a) = 0 THEN NaN ELSE InfOf(Sign(a))
  ELSE IF IsFin(a) THEN QZero
  ELSE IF IsFin(b) THEN InfOf(Sign(a) * (IF Sign(b) < 0 THEN -1 ELSE 1))
  ELSE NaN

\* operator < of float: false when either side is NaN
FLt(a, b) ==
  IF IsNaN(a) \/ IsNaN(b) THEN FALSE
  ELSE IF IsFin(a) /\ IsFin(b) THEN QLt(a, b)
  ELSE IF a = b THEN FALSE
  ELSE a = NegInf \/ b = PosInf

\* operator == of float: false when either side is NaN
FEq(a, b) == ~IsNaN(a) /\ ~IsNaN(b) /\ a = b

\* std::sqrt, of NaN, of a negative value, of +infinity and of the square of a rational
FSqrt(a) ==
  IF IsNaN(a) \/ Sign(a) < 0 THEN NaN
  ELSE IF a = PosInf THEN PosInf
  ELSE QSqrt(a)

FColorAdd(c, d) == Color(FAdd(c.r, d.r), FAdd(c.g, d.g), FAdd(c.b, d.b), FAdd(c.a, d.a))
FColorMul(c, f) == Color(FMul(c.r, f), FMul(c.g, f), FMul(c.b, f), FMul(c.a, f))

\* ------------------------------------------------------------------------
\* Gradients, paints and paint servers (document.hpp)
\* ------------------------------------------------------------------------

\* Gradient::Stop
Stop(color, pos) == [color |-> color, pos |-> pos]

\* std::lower_bound(stops.begin(), stops.end(), pos) on sorted stops: the
\* first stop that is not < pos, Len(stops) + 1 for stops.end()
lower_bound(stops, pos) ==
  LET found == {i \in 1..Len(stops) : ~FLt(stops[i].pos, pos)}
  IN  IF found = {} THEN Len(stops) + 1 ELSE SetMin(found)

\* Gradient::evaluate
Gradient_evaluate(stops, pos) ==
  IF stops = <<>> THEN Color0
  ELSE LET i == lower_bound(stops, pos)
       IN  IF i = 1 THEN stops[1].color
           ELSE IF i = Len(stops) + 1 THEN stops[Len(stops)].color
           ELSE LET factor == FDiv(FSub(pos, stops[i - 1].pos), FSub(stops[i].pos, stops[i - 1].pos))
                IN  FColorAdd(FColorMul(stops[i - 1].color, FSub(QOne, factor)),
                              FColorMul(stops[i].color, factor))

\* Point and Transformation with float values that may be special
FPointSub(p, q) == Point(FSub(p.x, q.x), FSub(p.y, q.y))
FDot(p, q) == FAdd(FMul(p.x, q.x), FMul(p.y, q.y))

\* the determinant computed by Transformation::invert
Determinant(t) == FSub(FMul(t.a, t.d), FMul(t.b, t.c))

\* Transformation::invert
invert(t) ==
  LET det == Determinant(t)
  IN  Transformation(FDiv(t.d, det),
                     FDiv(FNeg(t.b), det),
                     FDiv(FNeg(t.c), det),
                     FDiv(t.a, det),
                     FDiv(FSub(FMul(t.c, t.f), FMul(t.d, t.e)), det),
                     FDiv(FSub(FMul(t.b, t.e), FMul(t.a, t.f)), det))

\* operator *(const Transformation& t, const Point& p)
transform_point(t, p) ==
  Point(FAdd(FAdd(FMul(t.a, p.x), FMul(t.c, p.y)), t.e),
        FAdd(FAdd(FMul(t.b, p.x), FMul(t.d, p.y)), t.f))

LinearGradient(start, end, stops) == [start |-> start, end |-> end, stops |-> stops]

\* LinearGradient::evaluate
LinearGradient_evaluate(g, p) ==
  LET d == FPointSub(g.end, g.start)
  IN  Gradient_evaluate(g.stops, FDiv(FDot(FPointSub(p, g.start), d), FDot(d, d)))

RadialGradient(c, r, f, fr, stops) == [c |-> c, r |-> r, f |-> f, fr |-> fr, stops |-> stops]

\* RadialGradient::sq
sq(x) == FMul(x, x)

\* RadialGradient::evaluate
RadialGradient_evaluate(g, p) ==
  LET A == FSub(FAdd(sq(FSub(g.c.x, g.f.x)), sq(FSub(g.c.y, g.f.y))), sq(FSub(g.r, g.fr)))
      B == FSub(FAdd(FMul(FSub(g.c.x, g.f.x), FSub(g.f.x, p.x)),
                     FMul(FSub(g.c.y, g.f.y), FSub(g.f.y, p.y))),
                FMul(g.fr, FSub(g.r, g.fr)))
      C == FSub(FAdd(sq(FSub(g.f.x, p.x)), sq(FSub(g.f.y, p.y))), sq(g.fr))
      D == FSub(sq(B), FMul(A, C))
  IN  IF FEq(A, QZero)
      THEN IF FEq(B, QZero) THEN Color0
           ELSE Gradient_evaluate(g.stops, FDiv(FNeg(C), FMul(QI(2), B)))
      ELSE IF FLt(D, QZero) THEN Color0
           ELSE IF FLt(g.r, g.fr)
                THEN Gradient_evaluate(g.stops, FDiv(FAdd(FNeg(B), FSqrt(D)), A))
                ELSE Gradient_evaluate(g.stops, FDiv(FSub(FNeg(B), FSqrt(D)), A))

\* the paints
ColorPaint(color) == [kind |-> "color", color |-> color]
LinearGradientPaint(gradient) == [kind |-> "linear", gradient |-> gradient]
RadialGradientPaint(gradient) == [kind |-> "radial", gradient |-> gradient]
OpacityPaint(paint, opacity) == [kind |-> "opacity", paint |-> paint, opacity |-> opacity]
TransformationPaint(paint, transformation) ==
  [kind |-> "transformation", paint |-> paint, transformation |-> transformation]

\* Paint::evaluate of each paint
RECURSIVE paint_evaluate(_, _)
paint_evaluate(paint, point) ==
  CASE paint.kind = "color" -> paint.color
    [] paint.kind = "linear" -> LinearGradient_evaluate(paint.gradient, point)
    [] paint.kind = "radial" -> RadialGradient_evaluate(paint.gradient, point)
    [] paint.kind = "opacity" -> FColorMul(paint_evaluate(paint.paint, point), paint.opacity)
    [] paint.kind = "transformation" ->
         paint_evaluate(paint.paint, transform_point(paint.transformation, point))

\* the paint servers
ColorPaintServer(color) == [kind |-> "color", color |-> color]
LinearGradientPaintServer(gradient) == [kind |-> "linear", gradient |-> gradient]
RadialGradientPaintServer(gradient) == [kind |-> "radial", gradient |-> gradient]

\* PaintServer::get_paint of each paint server
get_paint(server, transformation) ==
  CASE server.kind = "color" -> ColorPaint(server.color)
    [] server.kind = "linear" ->
         TransformationPaint(LinearGradientPaint(server.gradient), invert(transformation))
    [] server.kind = "radial" ->
         TransformationPaint(RadialGradientPaint(server.gradient), invert(transformation))

\* ------------------------------------------------------------------------
\* Gradients and paints evaluated on their own
\* ------------------------------------------------------------------------

\* the rasterizer and the path at rest
rest == <<doc, shapes, width, height, lines, events, y, event, current_lines,
          pixels, strip, strip_ids, adds, run, ref, change, path>>

AtRest ==
  /\ doc = <<>>
  /\ shapes = <<>>
  /\ width = Width
  /\ height = Height
  /\ lines = <<>>
  /\ events = {}
  /\ y = QZero
  /\ event = NoEvent
  /\ current_lines = <<>>
  /\ pixels = <<>>
  /\ strip = NoStrip
  /\ strip_ids = <<>>
  /\ adds = <<>>
  /\ run = 1
  /\ ref = <<>>
  /\ change = "none"
  /\ path = Path(Identity)

MaxStops == 3

StopColors == {Red, Blue, White}
StopPositions == {QZero, QHalf, QOne}

\* the stops of at most n entries, ascending by pos, equal pos allowed
RECURSIVE SortedStops(_)
SortedStops(n) ==
  IF n = 0 THEN {<<>>}
  ELSE LET shorter == SortedStops(n - 1)
       IN  shorter \cup
           {Append(w[1], Stop(w[2], w[3])) :
              w \in {v \in shorter \X StopColors \X StopPositions :
                       /\ Len(v[1]) = n - 1
                       /\ (n = 1 \/ QLe(v[1][n - 1].pos, v[3]))}}

GradientPositions == {Q(-1, 2), QZero, Q(1, 4), QHalf, Q(3, 4), QOne, Q(3, 2)}

GradientCalls ==
  {[f |-> "Gradient::evaluate", stops |-> st, pos |-> t] : st \in SortedStops(MaxStops), t \in GradientPositions}

TwoStops == <<Stop(Red, QZero), Stop(Blue, QOne)>>

PaintServers ==
  {LinearGradientPaintServer(LinearGradient(P(0, 0), P(1, 0), TwoStops)),
   LinearGradientPaintServer(LinearGradient(P(0, 0), P(2, 2), TwoStops)),
   RadialGradientPaintServer(RadialGradient(P(0, 0), QOne, P(0, 0), QZero, TwoStops)),
   RadialGradientPaintServer(RadialGradient(P(0, 0), QI(2), P(0, 0), QOne, TwoStops))}

\* user transformations: two that can be inverted, and some of determinant zero
UserTransformations ==
  {Identity, scale(QI(2), QI(2)),
   scale(QZero, QZero), scale(QOne, QZero), scale(QZero, QOne),
   Transformation(QOne, QOne, QOne, QOne, QZero, QZero),
   Transformation(QOne, QI(2), QI(2), QI(4), QOne, QI(3))}

PaintPoints == {P(0, 0), P(1, 0), P(2, 0), Point(QHalf, QZero), Point(QZero, QHalf), Point(Q(3, 5), Q(4, 5))}

PaintCalls ==
  {[f |-> "get_paint", server |-> sv, transformation |-> t, point |-> pt] :
     sv \in PaintServers, t \in UserTransformations, pt \in PaintPoints}

InitPaint ==
  /\ AtRest
  /\ pc = "call"
  /\ call \in GradientCalls \cup PaintCalls
  /\ returned = NoCall

\* Gradient::evaluate(pos)
EvaluateGradient ==
  /\ pc = "call"
  /\ call.f = "Gradient::evaluate"
  /\ returned' = [f |-> call.f, value |-> Gradient_evaluate(call.stops, call.pos)]
  /\ pc' = "returned"
  /\ UNCHANGED <<rest, call>>

\* server.get_paint(transformation)->evaluate(point)
EvaluatePaint ==
  /\ pc = "call"
  /\ call.f = "get_paint"
  /\ returned' = [f |-> call.f, value |-> paint_evaluate(get_paint(call.server, call.transformation), call.point)]
  /\ pc' = "returned"
  /\ UNCHANGED <<rest, call>>

NextPaint ==
  \/ EvaluateGradient
  \/ EvaluatePaint

SpecPaint == InitPaint /\ [][NextPaint]_vars

\* C13: a gradient with at least one stop, sorted ascending by pos, evaluates
\* to the first stop's colour for every t <= first.pos and to the last stop's
\* colour for every t >= last.pos, t = last.pos included
C13_GradientEndpoints ==
  (pc = "returned" /\ call.f = "Gradient::evaluate" /\ call.stops # <<>>) =>
    /\ QLe(call.pos, call.stops[1].pos) => returned.value = call.stops[1].color
    /\ QLe(call.stops[Len(call.stops)].pos, call.pos) =>
         returned.value = call.stops[Len(call.stops)].color

\* C14: the paint that a linear or radial gradient paint server gives for a
\* user transformation of determinant zero evaluates to transparent black at
\* every point
C14_SingularTransform ==
  (pc = "returned" /\ call.f = "get_paint" /\ Determinant(call.transformation) = QZero) =>
    returned.value = Color0

\* ------------------------------------------------------------------------
\* Canvases with no pixels
\* ------------------------------------------------------------------------

\* pixels.size() / width in Pixmap::get_height with a width of 0, where
\* dividing by zero traps: rasterize_strip and write_png call get_height
GetHeightFault ==
  /\ width = 0
  /\ \/ pc = "event" /\ QLt(y, event.y)
     \/ pc = "loop" /\ events = {}
  /\ pc' = "crashed"
  /\ UNCHANGED <<doc, shapes, width, height, lines, events, y, event, current_lines, pixels, strip, strip_ids, adds, run, ref, change, path, call, returned>>

DegenerateCanvases == {<<0, 0>>, <<0, Height>>, <<Width, 0>>}

DegenerateDocs ==
  {<<>>, <<Draw(<<BigTriangle>>, Red)>>, <<Draw(<<CanvasRect>>, Blue)>>, <<Draw(<<Star>>, Red)>>,
   <<Draw(<<CanvasRect>>, Blue), Draw(<<InnerRect>>, HalfYellow)>>}

InitDegenerate ==
  /\ doc \in DegenerateDocs
  /\ \E canvas \in DegenerateCanvases :
       /\ width = canvas[1]
       /\ height = canvas[2]
  /\ shapes = <<>>
  /\ lines = <<>>
  /\ events = {}
  /\ y = QZero
  /\ event = NoEvent
  /\ current_lines = <<>>
  /\ pixels = <<>>
  /\ strip = NoStrip
  /\ strip_ids = <<>>
  /\ adds = <<>>
  /\ pc = "assemble"
  /\ run = 1
  /\ ref = <<>>
  /\ change = "none"
  /\ path = Path(Identity)
  /\ call = NoCall
  /\ returned = NoCall

NextDegenerate == Next \/ GetHeightFault

SpecDegenerate == InitDegenerate /\ [][NextDegenerate]_vars

\* C15: rasterize called with a width of 0 or a height of 0 completes
\* normally with an empty pixmap: no operation faults, the division in
\* Pixmap::get_height included
C15_DegenerateScene ==
  (width = 0 \/ height = 0) =>
    /\ pc # "crashed"
    /\ pc = "done" => DOMAIN pixels = {}

\* ---------------------------------------------------------------------
\* The command line program: main reads the input, parses it, renders the
\* document and catches what the parser throws
\* ---------------------------------------------------------------------

\* the messages Parser::error is called with
ParserErrors ==
  {"expected a number", "expected a name", "expected attribute value",
   "unexpected end", "expected end tag", "unexpected command",
   "expected 3 or 6 digits", "invalid color", "unexpected transformation",
   "expected svg tag"}

\* the documents of the inputs that parse
ParsedDocs ==
  {<<>>,
   <<Draw(<<BigTriangle>>, Red)>>,
   <<Draw(<<CanvasRect>>, Blue), Draw(<<InnerRect>>, HalfYellow)>>}

Arguments == 1..4

InitMain ==
  /\ AtRest
  /\ pc = "main"
  /\ call \in {[f |-> "main", argc |-> argc, thrown |-> "none"] : argc \in Arguments}
  /\ returned = NoCall

\* argc <= 2: the usage line is printed and main returns 0
MainUsage ==
  /\ pc = "main"
  /\ call.argc <= 2
  /\ returned' = [f |-> "main", stdout |-> <<"usage: raster <input> <output>">>, stderr |-> <<>>, status |-> 0]
  /\ pc' = "exit"
  /\ UNCHANGED <<rest, call>>

\* parse(svg) returns a document, which rasterize is called with
MainParse ==
  /\ pc = "main"
  /\ call.argc > 2
  /\ doc' \in ParsedDocs
  /\ pc' = "assemble"
  /\ UNCHANGED <<shapes, width, height, lines, events, y, event, current_lines, pixels, strip, strip_ids, adds, run, ref, change, path, call, returned>>

\* parse(svg) throws the message of Parser::error
MainThrow ==
  /\ pc = "main"
  /\ call.argc > 2
  /\ \E message \in ParserErrors : call' = [call EXCEPT !.thrown = message]
  /\ pc' = "catch"
  /\ UNCHANGED <<rest, returned>>

\* the handler prints the message to std::cerr; control then reaches the
\* end of main, which returns 0
MainCatch ==
  /\ pc = "catch"
  /\ returned' = [f |-> "main", stdout |-> <<>>, stderr |-> <<"error: ", call.thrown>>, status |-> 0]
  /\ pc' = "exit"
  /\ UNCHANGED <<rest, call>>

\* rasterize has returned; control reaches the end of main, which returns 0
MainReturn ==
  /\ pc = "done"
  /\ returned' = [f |-> "main", stdout |-> <<>>, stderr |-> <<>>, status |-> 0]
  /\ pc' = "exit"
  /\ UNCHANGED <<rest, call>>

NextMain ==
  \/ MainUsage
  \/ MainParse
  \/ MainThrow
  \/ MainCatch
  \/ MainReturn
  \/ Next

SpecMain == InitMain /\ [][NextMain]_vars

\* C16: the program exits with status 0 when parsing and rendering succeed,
\* and with a non-zero status, after a diagnostic on stderr, whenever the
\* parser raised an error
C16_ExitStatus ==
  pc = "exit" =>
    /\ call.thrown = "none" => returned.status = 0
    /\ call.thrown # "none" => returned.status # 0 /\ returned.stderr # <<>>

\* ---------------------------------------------------------------------
\* The PNG encoder (png.cpp). An unsigned word is the sequence of its bits,
\* the least significant first; a byte is a number in 0..255
\* ---------------------------------------------------------------------

Zeros(n) == [i \in 1..n |-> 0]

\* the bits of the word whose bytes are given most significant first
RECURSIVE WordOfBytes(_)
WordOfBytes(bytes) ==
  IF bytes = <<>> THEN <<>>
  ELSE WordOfBytes(Tail(bytes)) \o [i \in 1..8 |-> (Head(bytes) \div (2 ^ (i - 1))) % 2]

\* the number whose bits are given, for words of fewer than 31 bits
RECURSIVE NatOfBits(_)
NatOfBits(bits) ==
  IF bits = <<>> THEN 0 ELSE Head(bits) + 2 * NatOfBits(Tail(bits))

\* the bytes of a word, most significant first, as write<T> emits them
RECURSIVE BytesOfWord(_)
BytesOfWord(word) ==
  IF word = <<>> THEN <<>>
  ELSE BytesOfWord(SubSeq(word, 9, Len(word))) \o <<NatOfBits(SubSeq(word, 1, 8))>>

Xor(a, b) == SubSeq([i \in 1..Len(a) |-> (a[i] + b[i]) % 2], 1, Len(a))

\* the n low bits of a number
BitsOfNat(m, n) == SubSeq([i \in 1..n |-> (m \div (2 ^ (i - 1))) % 2], 1, n)

\* a + b + carry, sixteen bits at a time from the least significant
RECURSIVE AddBits(_, _, _)
AddBits(a, b, carry) ==
  IF Len(a) <= 16 THEN BitsOfNat(NatOfBits(a) + NatOfBits(b) + carry, Len(a))
  ELSE LET sum == NatOfBits(SubSeq(a, 1, 16)) + NatOfBits(SubSeq(b, 1, 16)) + carry
       IN  BitsOfNat(sum, 16) \o AddBits(SubSeq(a, 17, Len(a)), SubSeq(b, 17, Len(b)), sum \div 65536)

\* a + b modulo 2^width
Plus(a, b) == AddBits(a, b, 0)

Shl(a, k) == Zeros(k) \o SubSeq(a, 1, Len(a) - k)
Shr(a, k) == SubSeq(a, k + 1, Len(a)) \o Zeros(k)
Not(a) == SubSeq([i \in 1..Len(a) |-> 1 - a[i]], 1, Len(a))

\* write<std::uint32_t> and write<std::uint16_t> of a number: its bytes,
\* most significant first
U32(n) == <<(n \div 16777216) % 256, (n \div 65536) % 256, (n \div 256) % 256, n % 256>>
U16(n) == <<(n \div 256) % 256, n % 256>>

\* convert_endianness<std::uint16_t>
convert_endianness16(n) == ((n % 256) * 256) + ((n \div 256) % 256)

\* Adler32: s1 and s2
Adler32 == <<1, 0>>
Adler32_put(adler, data) ==
  <<(adler[1] + data) % 65521, (adler[2] + ((adler[1] + data) % 65521)) % 65521>>
\* operator std::uint32_t: s2 << 16 | s1, as write<std::uint32_t> emits it
Adler32_bytes(adler) == U16(adler[2]) \o U16(adler[1])

RECURSIVE Adler32_write(_, _)
Adler32_write(adler, bytes) ==
  IF bytes = <<>> THEN adler
  ELSE Adler32_write(Adler32_put(adler, Head(bytes)), Tail(bytes))

\* Crc32: crc = ~0
Crc32 == [i \in 1..32 |-> 1]
Polynomial == WordOfBytes(<<237, 184, 131, 32>>)

RECURSIVE Crc32_rounds(_, _)
Crc32_rounds(crc, j) ==
  IF j = 0 THEN crc
  ELSE Crc32_rounds(IF crc[1] = 1 THEN Xor(Shr(crc, 1), Polynomial) ELSE Shr(crc, 1), j - 1)

Crc32_put(crc, data) == Crc32_rounds(Xor(crc, WordOfBytes(<<0, 0, 0, data>>)), 8)

RECURSIVE Crc32_write(_, _)
Crc32_write(crc, bytes) ==
  IF bytes = <<>> \/ crc = <<>> THEN crc
  ELSE Crc32_write(Crc32_put(crc, Head(bytes)), Tail(bytes))

\* operator std::uint32_t: ~crc, as write<std::uint32_t> emits it
Crc32_bytes(crc) == BytesOfWord(Not(crc))

\* Random: s[0] and s[1]
Seed == WordOfBytes(<<192, 222, 192, 222, 192, 222, 192, 222>>)
Random == <<Seed, Seed>>

\* Random::next (xorshift128+): the result and the generator after the call
Random_next(s) ==
  LET s1 == Xor(s[1], Shl(s[1], 23))
  IN  [result |-> Plus(s[1], s[2]),
       s |-> <<s[2], Xor(Xor(Xor(s1, s[2]), Shr(s1, 18)), Shr(s[2], 5))>>]

\* std::ldexp(static_cast<float>(result), -64): the conversion keeps the
\* leading bits of the word, sixteen of them here
next_float(result) == Q(NatOfBits(SubSeq(result, 49, 64)), 65536)

\* a dither that leaves the generator alone when the value needs no rounding
dither_when_fractional(s, value) ==
  LET n == Random_next(s)
      scaled == QMul(value, QI(255))
  IN  IF scaled[2] = 1
      THEN [byte |-> QTrunc(QClamp(scaled, QZero, QI(255))), s |-> s]
      ELSE [byte |-> QTrunc(QClamp(QAdd(scaled, next_float(n.result)), QZero, QI(255))), s |-> n.s]

\* Random::dither: the byte and the generator after the call
dither(s, value) ==
  LET n == Random_next(s)
  IN  [byte |-> QTrunc(QClamp(QAdd(QMul(value, QI(255)), next_float(n.result)), QZero, QI(255))),
       s |-> n.s]

unpremultiply(c) ==
  IF c.a = QZero THEN Color0 ELSE Color(QDiv(c.r, c.a), QDiv(c.g, c.a), QDiv(c.b, c.a), c.a)

\* the four dither calls of one pixel: the bytes and the generator after them
dither_pixel(s, color) ==
  LET r == dither(s, color.r)
      g == dither(r.s, color.g)
      b == dither(g.s, color.b)
      a == dither(b.s, color.a)
  IN  [bytes |-> <<r.byte, g.byte, b.byte, a.byte>>, s |-> a.s]

\* one chunk whose length is written first and whose type and data go
\* through the checksum
Chunk(type, data) ==
  U32(Len(data)) \o type \o data \o Crc32_bytes(Crc32_write(Crc32, type \o data))

Signature == <<137, 80, 78, 71, 13, 10, 26, 10>>
IHDR == <<73, 72, 68, 82>>
IDAT == <<73, 68, 65, 84>>
IEND == <<73, 69, 78, 68>>

\* compression method and info, and the flags with their check bits
cmf == 8 + 7 * 16
flg == 31 - ((cmf * 256) % 31)

\* the colours of the pixmaps that are written
PngColors == <<Transparent, Red, HalfRed, Color(Q(1, 4), QHalf, QZero, Q(3, 4))>>

\* pixmaps of width x height pixels
Pixmaps ==
  {[i \in 0..(Width * Height - 1) |-> PngColors[((i * k + j) % Len(PngColors)) + 1]] :
     k \in 1..2, j \in 0..(Len(PngColors) - 1)}

InitPng ==
  /\ doc = <<>>
  /\ shapes = <<>>
  /\ width = Width
  /\ height = Height
  /\ lines = <<>>
  /\ events = {}
  /\ y = QZero
  /\ event = NoEvent
  /\ current_lines = <<>>
  /\ pixels \in Pixmaps
  /\ strip = NoStrip
  /\ strip_ids = <<>>
  /\ adds = <<>>
  /\ pc = "call"
  /\ run = 1
  /\ ref = <<>>
  /\ change = "none"
  /\ path = Path(Identity)
  /\ call = [f |-> "write_png", at |-> 0 - 1]
  /\ returned = NoCall

\* write_png up to the rows: the signature, the IHDR chunk, the head of the
\* IDAT chunk, Random random
PngHeader ==
  /\ pc = "call"
  /\ call.f = "write_png"
  /\ LET h == get_height(Cardinality(DOMAIN pixels), width)
     IN  returned' =
           [f |-> "write_png",
            file |-> Signature
                     \o Chunk(IHDR, U32(width) \o U32(h) \o <<8, 6, 0, 0, 0>>)
                     \o U32((width * 4 + 6) * h + 6) \o IDAT \o <<cmf, flg>>,
            idat_crc |-> Crc32_write(Crc32, IDAT \o <<cmf, flg>>),
            adler |-> Adler32,
            random |-> Random,
            height |-> h,
            y |-> 0,
            x |-> 0,
            dithered |-> <<>>]
  /\ pc' = "row"
  /\ UNCHANGED <<doc, shapes, width, height, lines, events, y, event, current_lines, pixels, strip, strip_ids, adds, run, ref, change, path, call>>

\* the header of the stored block of row y: is_final, then length and
\* ~length, both std::uint16_t
block_header(w, row, h) ==
  LET len == convert_endianness16((1 + w * 4) % 65536)
  IN  <<IF row = h - 1 THEN 1 ELSE 0>> \o U16(len) \o U16(65535 - len)

\* the head of row y: the block header and the filter type
PngRow ==
  /\ pc = "row"
  /\ returned.y < returned.height
  /\ LET head == block_header(width, returned.y, returned.height) \o <<0>>
     IN  returned' = [returned EXCEPT
           !.file = @ \o head,
           !.idat_crc = Crc32_write(@, head),
           !.adler = Adler32_put(@, 0),
           !.x = 0]
  /\ pc' = "pixel"
  /\ UNCHANGED <<doc, shapes, width, height, lines, events, y, event, current_lines, pixels, strip, strip_ids, adds, run, ref, change, path, call>>

\* the pixel at (x, y): unpremultiplied, its four components dithered
PngPixel ==
  /\ pc = "pixel"
  /\ returned.x < width
  /\ LET d == dither_pixel(returned.random, unpremultiply(pixels[returned.y * width + returned.x]))
     IN  returned' = [returned EXCEPT
           !.file = @ \o d.bytes,
           !.idat_crc = Crc32_write(@, d.bytes),
           !.adler = Adler32_write(@, d.bytes),
           !.random = d.s,
           !.x = @ + 1,
           !.dithered = Append(@, d.bytes)]
  /\ UNCHANGED <<doc, shapes, width, height, lines, events, y, event, current_lines, pixels, strip, strip_ids, adds, pc, run, ref, change, path, call>>

\* x == width: on to the next row
PngRowEnd ==
  /\ pc = "pixel"
  /\ returned.x = width
  /\ returned' = [returned EXCEPT !.y = @ + 1]
  /\ pc' = "row"
  /\ UNCHANGED <<doc, shapes, width, height, lines, events, y, event, current_lines, pixels, strip, strip_ids, adds, run, ref, change, path, call>>

\* y == height: the checksums and the IEND chunk
PngEnd ==
  /\ pc = "row"
  /\ returned.y = returned.height
  /\ LET sum == Adler32_bytes(returned.adler)
     IN  returned' = [returned EXCEPT
           !.file = @ \o sum \o Crc32_bytes(Crc32_write(returned.idat_crc, sum)) \o Chunk(IEND, <<>>),
           !.idat_crc = Crc32_write(@, sum)]
  /\ pc' = "written"
  /\ UNCHANGED <<doc, shapes, width, height, lines, events, y, event, current_lines, pixels, strip, strip_ids, adds, run, ref, change, path, call>>

\* write_png is called a second time, on the pixmap with the pixel at index
\* at set to some colour (its own colour included), the first call's
\* output kept for comparison
PngAgain ==
  /\ pc = "written"
  /\ run = 1
  /\ \E at \in DOMAIN pixels, color \in Range(PngColors) :
       /\ pixels' = [pixels EXCEPT ![at] = color]
       /\ call' = [f |-> "write_png", at |-> at]
  /\ ref' = [pixels |-> pixels, file |-> returned.file, dithered |-> returned.dithered, random |-> returned.random]
  /\ run' = 2
  /\ returned' = NoCall
  /\ pc' = "call"
  /\ UNCHANGED <<doc, shapes, width, height, lines, events, y, event, current_lines, strip, strip_ids, adds, change, path>>

NextPng ==
  \/ PngHeader
  \/ PngRow
  \/ PngPixel
  \/ PngRowEnd
  \/ PngEnd
  \/ PngAgain

SpecPng == InitPng /\ [][NextPng]_vars

\* the generator after n calls of next
RECURSIVE Advance(_, _)
Advance(s, n) == IF n = 0 \/ s = <<>> THEN s ELSE Advance(Random_next(s).s, n - 1)

\* C17: two write_png calls on equal pixmaps emit the same bytes; each call
\* starts from the seed and advances the generator exactly four times per
\* pixel whatever the pixel values, so that setting one pixel to another
\* colour changes no dithered byte of any other pixel
C17_EncoderDeterminism ==
  /\ pc = "written" =>
       /\ Len(returned.dithered) = Cardinality(DOMAIN pixels)
       /\ returned.random = Advance(Random, 4 * Cardinality(DOMAIN pixels))
  /\ (pc = "written" /\ run = 2) =>
       /\ pixels = ref.pixels => returned.file = ref.file
       /\ \A i \in DOMAIN pixels : i # call.at => returned.dithered[i + 1] = ref.dithered[i + 1]

\* both calls are over, the pixel set to another colour has other bytes, and
\* a later pixel of fractional alpha kept its bytes
C17_Witness ==
  /\ pc = "written"
  /\ run = 2
  /\ returned.dithered[call.at + 1] # ref.dithered[call.at + 1]
  /\ \E i \in DOMAIN pixels : i > call.at /\ pixels[i].a = QHalf

\* ---------------------------------------------------------------------
\* Style and Document::draw (document.hpp)
\* ---------------------------------------------------------------------

\* a std::shared_ptr that holds nothing
Null == [kind |-> "null"]

Style(fill_server, fill_opacity, stroke_server, stroke_width, stroke_opacity) ==
  [fill |-> fill_server, fill_opacity |-> fill_opacity,
   stroke |-> stroke_server, stroke_width |-> stroke_width, stroke_opacity |-> stroke_opacity]

get_fill_paint(style, transformation) ==
  OpacityPaint(get_paint(style.fill, transformation), style.fill_opacity)

get_stroke_paint(style, transformation) ==
  OpacityPaint(get_paint(style.stroke, transformation), style.stroke_opacity)

\* a test that lets a stroke of width 0 through
draw_strokes_any_width(style) ==
  style.stroke # Null /\ FLt(QZero, style.stroke_opacity)

\* the tests of the two if statements of draw
draw_fills(style) ==
  style.fill # Null /\ FLt(QZero, style.fill_opacity)

draw_strokes(style) ==
  style.stroke # Null /\ FLt(QZero, style.stroke_width) /\ FLt(QZero, style.stroke_opacity)

\* the paths handed to draw, as PathParser builds them on Path(): an open and
\* a closed triangle, two subpaths, a lone move_to, no subpath at all
DrawPaths ==
  {PathOf(<<<<P(0, 0), P(4, 0), P(4, 3)>>>>),
   [t |-> Identity, subpaths |-> <<Subpath(<<P(0, 0), P(4, 0), P(4, 3)>>, TRUE)>>],
   PathOf(<<<<P(0, 0), P(4, 0), P(4, 3)>>, <<P(4, 3), P(0, 0)>>>>),
   PathOf(<<<<P(0, 0)>>>>),
   Path(Identity)}

\* the transformation of the enclosing groups
DrawTransformations == {Identity, translate(QOne, QZero), scale(QI(2), QI(2))}

Styles ==
  {Style(f, fo, st, sw, so) :
     f \in {Null, ColorPaintServer(Red), LinearGradientPaintServer(LinearGradient(P(0, 0), P(1, 0), TwoStops))},
     fo \in {QNeg(QHalf), QZero, QHalf, QOne},
     st \in {Null, ColorPaintServer(Blue)},
     sw \in {QZero, QI(2)},
     so \in {QZero, QOne}}

\* the shapes of the document before the call
ShapesBefore == {<<>>, fill(PathOf(<<<<P(0, 0), P(4, 3), P(0, 3)>>>>), <<>>, White)}

InitDraw ==
  /\ doc = <<>>
  /\ shapes \in ShapesBefore
  /\ width = Width
  /\ height = Height
  /\ lines = <<>>
  /\ events = {}
  /\ y = QZero
  /\ event = NoEvent
  /\ current_lines = <<>>
  /\ pixels = <<>>
  /\ strip = NoStrip
  /\ strip_ids = <<>>
  /\ adds = <<>>
  /\ pc = "call"
  /\ run = 1
  /\ ref = shapes
  /\ change = "none"
  /\ path \in DrawPaths
  /\ call \in {[f |-> "Document::draw", style |-> st, transformation |-> t] :
                 st \in Styles, t \in DrawTransformations}
  /\ returned = NoCall

\* the first if statement of draw
DrawFill ==
  /\ pc = "call"
  /\ call.f = "Document::draw"
  /\ shapes' = IF draw_fills(call.style)
               THEN fill(path, shapes, get_fill_paint(call.style, call.transformation))
               ELSE shapes
  /\ pc' = "filled"
  /\ UNCHANGED <<doc, width, height, lines, events, y, event, current_lines, pixels, strip, strip_ids, adds, run, ref, change, path, call, returned>>

\* the second if statement of draw
DrawStroke ==
  /\ pc = "filled"
  /\ IF draw_strokes(call.style)
     THEN \E g0, g1 \in StrayPoints :
            \E result \in stroke(path, shapes, call.style.stroke_width,
                                 get_stroke_paint(call.style, call.transformation), <<g0, g1>>) :
              /\ shapes' = result.shapes
              /\ pc' = IF result.crashed THEN "crashed" ELSE "returned"
     ELSE /\ shapes' = shapes
          /\ pc' = "returned"
  /\ returned' = [f |-> call.f]
  /\ UNCHANGED <<doc, width, height, lines, events, y, event, current_lines, pixels, strip, strip_ids, adds, run, ref, change, path, call>>

NextDraw ==
  \/ DrawFill
  \/ DrawStroke

SpecDraw == InitDraw /\ [][NextDraw]_vars

\* what the claims say of a style
FillIsSet == call.style.fill # Null /\ QLt(QZero, call.style.fill_opacity)
StrokeIsSet ==
  /\ call.style.stroke # Null
  /\ QLt(QZero, call.style.stroke_width)
  /\ QLt(QZero, call.style.stroke_opacity)

\* the shapes a stroke of the path p may give, whatever the stray reads
StrokeShapes(p) ==
  {result.shapes[1] :
     result \in {r \in UNION {stroke(p, <<>>, call.style.stroke_width,
                                     get_stroke_paint(call.style, call.transformation), <<g0, g1>>) :
                                g0 \in StrayPoints, g1 \in StrayPoints} : ~r.crashed}}

\* C18: draw appends a fill shape iff style.fill is set and fill_opacity > 0,
\* and a stroke shape iff style.stroke is set and stroke_width > 0 and
\* stroke_opacity > 0; the fill shape comes before the stroke shape, and no
\* other shape is appended
C18_DrawFillAndStroke ==
  pc = "returned" =>
    /\ Len(shapes) = Len(ref) + (IF FillIsSet THEN 1 ELSE 0) + (IF StrokeIsSet THEN 1 ELSE 0)
    /\ SubSeq(shapes, 1, Len(ref)) = ref
    /\ FillIsSet =>
         shapes[Len(ref) + 1] = fill(path, <<>>, get_fill_paint(call.style, call.transformation))[1]
    /\ StrokeIsSet => shapes[Len(shapes)] \in StrokeShapes(path)

\* draw has appended a fill shape and a stroke shape to a document that had
\* a shape
C18_Witness ==
  /\ pc = "returned"
  /\ FillIsSet
  /\ StrokeIsSet
  /\ ref # <<>>
  /\ Len(shapes) = Len(ref) + 2
  /\ shapes[Len(shapes)].segments # <<>>

\* C19: draw(path, style, transform) applies transform to every point of the
\* path: the segments of the appended shapes are those of the path's points
\* (offset points, for a stroke) under transform
C19_DrawAppliesTransform ==
  pc = "returned" =>
    LET transformed == [path EXCEPT !.t = call.transformation]
    IN  /\ FillIsSet =>
             shapes[Len(ref) + 1].segments
               = fill(transformed, <<>>, get_fill_paint(call.style, call.transformation))[1].segments
        /\ StrokeIsSet =>
             shapes[Len(shapes)].segments \in {s.segments : s \in StrokeShapes(transformed)}

\* ---------------------------------------------------------------------
\* Path::curve_to (document.hpp)
\* ---------------------------------------------------------------------

length_squared(p) == dot(p, p)

\* the distance (squared) between p and the segment a-b
get_distance_squared(a, b, p) ==
  IF a = b THEN length_squared(PointSub(p, a))
  ELSE LET u == QDiv(dot(PointSub(p, a), PointSub(b, a)), length_squared(PointSub(b, a)))
       IN  IF QLe(u, QZero) THEN length_squared(PointSub(p, a))
           ELSE IF QLe(QOne, u) THEN length_squared(PointSub(p, b))
           ELSE length_squared(PointSub(PointSub(p, a), PointMul(PointSub(b, a), u)))

get_error_squared(p0, p1, p2, p3) ==
  QMax(get_distance_squared(p0, p3, p1), get_distance_squared(p0, p3, p2))

\* tolerance * tolerance
ToleranceSquared == Q(1, 100)

\* a curve_to that always halves the curve once
curve_to_halved(self, p1, p2, p3) ==
  LET p0 == current_point(self)
      p4 == PointMul(PointAdd(p0, p1), QHalf)
      p5 == PointMul(PointAdd(p1, p2), QHalf)
      p6 == PointMul(PointAdd(p2, p3), QHalf)
      p7 == PointMul(PointAdd(p4, p5), QHalf)
      p8 == PointMul(PointAdd(p5, p6), QHalf)
      p9 == PointMul(PointAdd(p7, p8), QHalf)
  IN  line_to(line_to(self, p9), p3)

\* Path::curve_to
RECURSIVE curve_to(_, _, _, _)
curve_to(self, p1, p2, p3) ==
  LET p0 == current_point(self)
  IN  IF QLt(get_error_squared(Apply(self.t, p0), Apply(self.t, p1), Apply(self.t, p2), Apply(self.t, p3)),
             ToleranceSquared)
      THEN line_to(self, p3)
      ELSE LET p4 == PointMul(PointAdd(p0, p1), QHalf)
               p5 == PointMul(PointAdd(p1, p2), QHalf)
               p6 == PointMul(PointAdd(p2, p3), QHalf)
               p7 == PointMul(PointAdd(p4, p5), QHalf)
               p8 == PointMul(PointAdd(p5, p6), QHalf)
               p9 == PointMul(PointAdd(p7, p8), QHalf)
           IN  curve_to(curve_to(self, p4, p7, p9), p8, p6, p3)

\* where along the line from p0 to p3 the control points are put: on the
\* segment, or past p3
Fractions == {QZero, Q(1, 4), QOne, Q(9, 8)}

\* path.curve_to(p1, p2, p3), the path as it was kept in call
CurveTo ==
  /\ pc = "path"
  /\ CountPoints(path.subpaths, 1) < MaxPoints
  /\ \E p3 \in PathPoints, s1 \in Fractions, s2 \in Fractions :
       LET p0 == current_point(path)
           p1 == PointAdd(p0, PointMul(PointSub(p3, p0), s1))
           p2 == PointAdd(p0, PointMul(PointSub(p3, p0), s2))
       IN  /\ call' = [f |-> "curve_to", path |-> path, p1 |-> p1, p2 |-> p2, p3 |-> p3]
           /\ path' = curve_to(path, p1, p2, p3)
  /\ pc' = "curved"
  /\ UNCHANGED <<doc, shapes, width, height, lines, events, y, event, current_lines, pixels, strip, strip_ids, adds, run, ref, change, returned>>

NextCurve ==
  \/ MoveTo
  \/ LineTo
  \/ Close
  \/ CurveTo

SpecCurve == InitPath /\ [][NextCurve]_vars

\* p lies on the segment a - b
OnSegment(a, b, p) ==
  LET d == PointSub(b, a)
      e == PointSub(p, a)
  IN  /\ a = b => p = a
      /\ QSub(QMul(d.x, e.y), QMul(d.y, e.x)) = QZero
      /\ QLe(QZero, dot(e, d))
      /\ QLe(dot(e, d), dot(d, d))

\* curve_to was called with p1 and p2 on the segment from the current point to p3
StraightCurve ==
  /\ pc = "curved"
  /\ OnSegment(current_point(call.path), call.p3, call.p1)
  /\ OnSegment(current_point(call.path), call.p3, call.p2)

\* the last subpath of the path curve_to was called on is open
HasOpenSubpath ==
  /\ call.path.subpaths # <<>>
  /\ ~call.path.subpaths[Len(call.path.subpaths)].closed

\* C20: curve_to(p1, p2, p3) with p1 and p2 on the segment from the current
\* point p0 to p3 flattens to one segment without subdivision: p3 alone is
\* appended to the last subpath when that subpath is open; when the path has
\* no subpath or its last subpath is closed, a new subpath of the two points
\* p0 and p3 is appended
C20_StraightCurve ==
  StraightCurve =>
    LET before == call.path.subpaths
        n == Len(before)
    IN  IF HasOpenSubpath
        THEN path.subpaths = [before EXCEPT ![n].points = Append(@, call.p3)]
        ELSE path.subpaths = Append(before, Subpath(<<current_point(call.path), call.p3>>, FALSE))

\* C20 as stated: exactly one point, p3, is appended to the current subpath
C20_AsStated ==
  StraightCurve =>
    LET before == call.path.subpaths
        n == Len(before)
    IN  /\ n > 0
        /\ path.subpaths = [before EXCEPT ![n].points = Append(@, call.p3)]

\* a straight curve whose control points are strictly inside the segment was
\* added to a path whose last subpath is closed
C20_Witness ==
  /\ StraightCurve
  /\ call.path.subpaths # <<>>
  /\ ~HasOpenSubpath
  /\ call.p1 \notin {current_point(call.path), call.p3}
  /\ path.t # Identity

\* ------------------------------------------------------------------------
\* The outlines of a stroke
\* ------------------------------------------------------------------------

\* the two endpoints of the segment p0 - p1 moved by w / 2 along
\* (-dy, dx) / length; nothing for a segment of length zero
OffsetPair(p0, p1, w) ==
  IF p0 = p1 THEN <<>>
  ELSE LET dx == QSub(p1.x, p0.x)
           dy == QSub(p1.y, p0.y)
           len == QSqrt(QAdd(QMul(dx, dx), QMul(dy, dy)))
           n == Point(QDiv(QMul(QNeg(dy), QDiv(w, QI(2))), len),
                      QDiv(QMul(dx, QDiv(w, QI(2))), len))
       IN  <<PointAdd(p0, n), PointAdd(p1, n)>>

\* the offsets of the segments of points from the i-th on, in order
RECURSIVE ForwardSide(_, _, _)
ForwardSide(points, w, i) ==
  IF i < Len(points)
  THEN OffsetPair(points[i], points[i + 1], w) \o ForwardSide(points, w, i + 1)
  ELSE <<>>

\* the offsets of the reversed segments of points from the i-th down
RECURSIVE ReverseSide(_, _, _)
ReverseSide(points, w, i) ==
  IF i > 1
  THEN OffsetPair(points[i], points[i - 1], w) \o ReverseSide(points, w, i - 1)
  ELSE <<>>

\* the outlines of the stroke of one subpath
SubpathOutlines(subpath, w) ==
  LET points == subpath.points
      n == Len(points)
  IN  IF subpath.closed
      THEN <<ForwardSide(points, w, 1) \o OffsetPair(points[n], points[1], w),
             OffsetPair(points[1], points[n], w) \o ReverseSide(points, w, n)>>
      ELSE <<ForwardSide(points, w, 1) \o ReverseSide(points, w, n)>>

\* the outlines of the stroke of the subpaths from the k-th on
RECURSIVE PathOutlines(_, _, _)
PathOutlines(self, w, k) ==
  IF k <= Len(self.subpaths)
  THEN SubpathOutlines(self.subpaths[k], w) \o PathOutlines(self, w, k + 1)
  ELSE <<>>

\* the shapes that feeding the outlines from the k-th on as closed subpaths
\* may leave
RECURSIVE FeedOutlines(_, _, _, _, _)
FeedOutlines(t, outlines, shape, stray, k) ==
  IF k <= Len(outlines)
  THEN UNION {FeedOutlines(t, outlines, s, stray, k + 1) :
                s \in fill_new_subpath(t, outlines[k], shape, stray) \ {Crash}}
  ELSE {shape}

\* the shape in shapes was made by the one stroke of the path
Stroked == pc = "draw" /\ Len(shapes) = 1 /\ shapes[1].paint = Blue

\* C21: Path::stroke feeds the shape, for each subpath in order, one closed
\* outline when the subpath is open (the offsets of all segments, then the
\* offsets of the reversed segments) and two when it is closed (the forward
\* side with the closing segment, then the reverse side with the closing
\* segment); a segment gives its two endpoints moved by width / 2 along
\* (-dy, dx) / length, and a segment of length zero gives nothing
C21_StrokeOutlines ==
  Stroked =>
    \A w \in StrokeWidths :
      \E g0, g1 \in StrayPoints :
        shapes[1] \in FeedOutlines(path.t, PathOutlines(path, w, 1), Shape(Blue), <<g0, g1>>, 1)

\* the stroke of a path of a closed subpath of three points with a segment of
\* length zero, and the one of a path with an open and a closed subpath
C21_Witness ==
  /\ Stroked
  /\ shapes[1].segments # <<>>
  /\ \/ /\ Len(path.subpaths) = 1
        /\ path.subpaths[1].closed
        /\ Len(path.subpaths[1].points) = 3
        /\ path.subpaths[1].points[1] = path.subpaths[1].points[2]
        /\ path.subpaths[1].points[2] # path.subpaths[1].points[3]
     \/ /\ Len(path.subpaths) = 2
        /\ ~path.subpaths[1].closed
        /\ path.subpaths[2].closed
        /\ Len(path.subpaths[1].points) = 2

\* ------------------------------------------------------------------------
\* The current point of a path under move_to, line_to and close
\* ------------------------------------------------------------------------

\* path.move_to(p), the path before the call kept in call
PathMoveTo ==
  /\ pc = "path"
  /\ CountPoints(path.subpaths, 1) <= MaxPoints
  /\ \E p \in PathPoints :
       /\ call' = [f |-> "move_to", path |-> path, p |-> p]
       /\ path' = move_to(path, p)
  /\ UNCHANGED <<doc, shapes, width, height, lines, events, y, event, current_lines, pixels, strip, strip_ids, adds, pc, run, ref, change, returned>>

\* path.line_to(p), the path before the call kept in call
PathLineTo ==
  /\ pc = "path"
  /\ \E p \in PathPoints :
       /\ CountPoints(line_to(path, p).subpaths, 1) <= MaxPoints + 1
       /\ call' = [f |-> "line_to", path |-> path, p |-> p]
       /\ path' = line_to(path, p)
  /\ UNCHANGED <<doc, shapes, width, height, lines, events, y, event, current_lines, pixels, strip, strip_ids, adds, pc, run, ref, change, returned>>

\* path.close(), the path before the call kept in call; subpaths.back() of a
\* path with no subpaths is outside the storage, and the write there faults
\* or is not seen
PathClose ==
  /\ pc = "path"
  /\ call' = [f |-> "close", path |-> path, p |-> P(0, 0)]
  /\ IF path.subpaths = <<>>
     THEN /\ pc' \in {"path", "crashed"}
          /\ path' = path
     ELSE /\ path' = close(path)
          /\ pc' = pc
  /\ UNCHANGED <<doc, shapes, width, height, lines, events, y, event, current_lines, pixels, strip, strip_ids, adds, run, ref, change, returned>>

NextCurrent ==
  \/ PathMoveTo
  \/ PathLineTo
  \/ PathClose

SpecCurrent == InitPath /\ [][NextCurrent]_vars

\* the current point as the last point of the last subpath, the first point of
\* a closed last subpath, (0, 0) for no subpath
CurrentPointOf(subpaths) ==
  IF Len(subpaths) = 0 THEN Point(QZero, QZero)
  ELSE LET last == subpaths[Len(subpaths)]
       IN  IF last.closed THEN Head(last.points)
           ELSE last.points[Len(last.points)]

\* the path has no subpath or its last subpath is closed
NothingOpen(subpaths) ==
  Len(subpaths) = 0 \/ subpaths[Len(subpaths)].closed

\* C22: after any sequence of move_to, line_to and close the current point is
\* (0, 0) if there is no subpath, the first point of the last subpath if that
\* one is closed, its last point otherwise; a line_to on a path that is empty
\* or whose last subpath is closed opens a new subpath that starts at that
\* current point, and no call changes the points of a closed subpath
C22_CurrentPoint ==
  /\ current_point(path) = CurrentPointOf(path.subpaths)
  /\ call # NoCall =>
       LET before == call.path.subpaths
           n == Len(before)
       IN  /\ Len(path.subpaths) >= n
           /\ \A k \in 1..n : before[k].closed => path.subpaths[k] = before[k]
           /\ call.f = "line_to" =>
                IF NothingOpen(before)
                THEN path.subpaths = Append(before, Subpath(<<CurrentPointOf(before), call.p>>, FALSE))
                ELSE path.subpaths = [before EXCEPT ![n].points = Append(@, call.p)]

\* line_to was called on a path whose last subpath is closed and has a first
\* point other than its last
C22_Witness ==
  /\ call # NoCall
  /\ call.f = "line_to"
  /\ NothingOpen(call.path.subpaths)
  /\ Len(path.subpaths) = 2
  /\ path.subpaths[1].closed
  /\ Head(path.subpaths[1].points) # path.subpaths[1].points[Len(path.subpaths[1].points)]
  /\ call.p # Head(path.subpaths[1].points)

\* ------------------------------------------------------------------------
\* The order of the events
\* ------------------------------------------------------------------------

\* the position of a type in enum class Type
TypeRank(type) == IF type = LINE_START THEN 0 ELSE 1

\* e is not after f in the order by y, then type, then index
KeyLe(e, f) ==
  \/ QLt(e.y, f.y)
  \/ /\ e.y = f.y
     /\ \/ TypeRank(e.type) < TypeRank(f.type)
        \/ TypeRank(e.type) = TypeRank(f.type) /\ e.index <= f.index

\* C23: the event queue gives the events by y ascending, and events of equal
\* y by type and then by the index of their edge: the event popped is the
\* least of the queue in that order
C23_StableTieBreak ==
  (pc = "event" /\ event # NoEvent) => \A e \in events : KeyLe(event, e)

\* ------------------------------------------------------------------------
\* The winding counts of a row
\* ------------------------------------------------------------------------

\* C24: in rasterize_row, after modify was called for the first i lines of
\* the strip, the map holds no count of 0, holds a shape exactly when the
\* directions of its lines among those i do not sum to 0, and holds that sum
\* for it; every add_pixel call was coloured from the map of its trapezoid
C24_WindingMap ==
  /\ strip # NoStrip =>
       \A i \in 0..(Len(strip.lines) - 1) :
         LET map == shapes_after(strip.lines, i)
         IN  /\ \A k \in DOMAIN map : map[k] # 0 /\ map[k] = WindingUpTo(k, i)
             /\ DOMAIN map = {k \in 1..Len(shapes) : WindingUpTo(k, i) # 0}
  /\ \A a \in 1..Len(adds) :
       /\ adds[a].map = shapes_after(strip.lines, adds[a].i)
       /\ adds[a].map # EmptyMap

\* a strip in which a shape's count reaches 2 or -2 and is erased further
\* right, pixels being painted in between
C24_Witness ==
  /\ strip # NoStrip
  /\ \E i, j \in 1..(Len(strip.lines) - 1) :
       \E k \in DOMAIN shapes_after(strip.lines, i) :
         /\ i < j
         /\ shapes_after(strip.lines, i)[k] \in {2, -2}
         /\ k \notin DOMAIN shapes_after(strip.lines, j)
         /\ strip.lines[j].shape = k
  /\ \E a \in 1..Len(adds) : \E k \in DOMAIN adds[a].map : adds[a].map[k] \in {2, -2}

\* ------------------------------------------------------------------------
\* The pixels a strip may change
\* ------------------------------------------------------------------------

\* the unit band of row r meets the strip st
RowMeetsStrip(st, r) == QLt(QI(r), st.y1) /\ QLt(st.y0, QI(r + 1))

\* the sum of the directions of the lines of shape k among the first j lines
RECURSIVE WindingOver(_, _, _)
WindingOver(strip_lines, k, j) ==
  IF j = 0 THEN 0
  ELSE WindingOver(strip_lines, k, j - 1)
       + (IF strip_lines[j].shape = k THEN strip_lines[j].direction ELSE 0)

\* column c of row r lies in the x-extent, over the part of the row inside
\* the strip st, of the trapezoid between two adjacent lines of the strip
\* that has a shape of non-zero winding on its left
ColumnInTrapezoid(st, r, c) ==
  \E band \in {<<QMax(QI(r), st.y0), QMin(QI(r + 1), st.y1)>>} :
    \E j \in 1..(Len(st.lines) - 1) :
      /\ \E m \in 1..j : WindingOver(st.lines, st.lines[m].shape, j) # 0
      /\ \E xs \in {{get_x(st.lines[j], band[1]), get_x(st.lines[j], band[2]),
                     get_x(st.lines[j + 1], band[1]), get_x(st.lines[j + 1], band[2])}} :
           /\ \E a \in xs : QLt(a, QI(c + 1))
           /\ \E b \in xs : QLt(QI(c), b)

\* pixel i may be changed by the strip st
Touched(st, i) ==
  /\ RowMeetsStrip(st, i \div width)
  /\ ColumnInTrapezoid(st, i \div width, i % width)

\* C25: rasterizing a strip changes only pixels of rows r with r < y1 and
\* r + 1 > y0, and in such a row only columns inside the x-extent of a
\* trapezoid with a non-empty set of active shapes; every other pixel is left
\* as it was
C25_StripFrame ==
  [][\A i \in DOMAIN pixels :
       (i \in DOMAIN pixels' /\ pixels'[i] # pixels[i]) =>
         \E st \in {strip'} : Touched(st, i)]_vars

\* a strip that lies inside one row below the first changed a pixel of that
\* row and left another pixel of the same row as it was
C25_Witness ==
  /\ strip # NoStrip
  /\ QLt(QZero, strip.y0)
  /\ \E a \in 1..Len(adds) : QLt(QZero, adds[a].factor)
  /\ \E r \in 0..(height - 1) :
       /\ RowMeetsStrip(strip, r)
       /\ ~RowMeetsStrip(strip, r + 1)
       /\ \E c \in 0..(width - 1) : ~ColumnInTrapezoid(strip, r, c)
       /\ \E c \in 0..(width - 1) : ColumnInTrapezoid(strip, r, c)

\* ------------------------------------------------------------------------
\* Shapes outside the canvas, on canvases of every size
\* ------------------------------------------------------------------------

\* shapes that lie wholly outside the largest canvas on one side, that
\* straddle one side or a corner, that contain every canvas, and slivers
\* between pixel centres
ClipPolys ==
  { Rect(0 - 2 * Margin, 0, 0 - Margin, Height),
    Rect(Width + Margin, 0, Width + 2 * Margin, Height),
    Rect(0, 0 - 2 * Margin, Width, 0 - Margin),
    Rect(0, Height + Margin, Width, Height + 2 * Margin),
    Rect(0 - Margin, 1, 1, Height + Margin),
    Rect(Width - 1, 0 - Margin, Width + Margin, 1),
    OuterRect,
    BigDiamond,
    <<P(0 - Margin, 0 - Margin), P(Width + Margin, 1), P(1, Height + Margin)>>,
    <<Point(Q(1, 2), Q(0 - 1, 2)), Point(Q(2 * Width + 1, 2), Q(1, 2)), Point(Q(1, 2), Q(2 * Height + 1, 2))>>,
    <<Point(Q(2 * Width - 1, 2), QZero), Point(Q(2 * Width + 1, 2), QI(Height)), Point(Q(2 * Width - 1, 2), QI(Height))>> }

ClipScenes ==
  {<<Draw(<<poly>>, Red)>> : poly \in ClipPolys}
  \cup {<<Draw(<<OuterRect>>, Blue), Draw(<<BigDiamond>>, HalfYellow)>>}

\* a scene is rendered on a canvas of any width from 1 to Width and any
\* height from 1 to Height
InitClip ==
  /\ doc \in ClipScenes
  /\ shapes = <<>>
  /\ width \in 1..Width
  /\ height \in 1..Height
  /\ lines = <<>>
  /\ events = {}
  /\ y = QZero
  /\ event = NoEvent
  /\ current_lines = <<>>
  /\ pixels = <<>>
  /\ strip = NoStrip
  /\ strip_ids = <<>>
  /\ adds = <<>>
  /\ pc = "assemble"
  /\ run = 1
  /\ ref = <<>>
  /\ change = "none"
  /\ path = Path(Identity)
  /\ call = NoCall
  /\ returned = NoCall

SpecClip == InitClip /\ [][Next]_vars

\* C26: every add_pixel call made during rasterize has 0 <= x < width and
\* 0 <= y < height, whatever the scene and the canvas, shapes partly or wholly
\* outside the canvas included
C26_AddPixelInBounds ==
  \A a \in 1..Len(adds) :
    /\ 0 <= adds[a].x /\ adds[a].x < width
    /\ 0 <= adds[a].y /\ adds[a].y < height
    /\ adds[a].y * width + adds[a].x \in DOMAIN pixels

\* a strip that reaches beyond the canvas below and on the right wrote the
\* pixel of the last row and the last column
C26_Witness ==
  /\ strip # NoStrip
  /\ QLt(QI(height), strip.y1)
  /\ \E j \in 1..Len(strip.lines) : QLt(QI(width), get_x(strip.lines[j], strip.y1))
  /\ \E j \in 1..Len(strip.lines) : QLt(get_x(strip.lines[j], strip.y0), QZero)
  /\ \E a \in 1..Len(adds) :
       /\ adds[a].x = width - 1
       /\ adds[a].y = height - 1
       /\ QLt(QZero, adds[a].factor)
  /\ width < Width
  /\ height < Height

\* ------------------------------------------------------------------------
\* The active lines under every order of coincident events
\* ------------------------------------------------------------------------

\* the events not yet processed: those in the queue and the one popped
Pending == events \cup (IF pc = "event" THEN {event} ELSE {})

\* C27: whatever order the queue gives events of equal y in, the edge of a
\* LINE_END event being processed is in current_lines; current_lines holds,
\* each once, exactly the edges whose LINE_START was processed and whose
\* LINE_END was not, so every edge is appended once and removed once; and
\* current_lines is empty when the queue is exhausted
C27_ActiveLines ==
  /\ (pc = "event" /\ event.type = LINE_END) => event.index \in Range(current_lines)
  /\ pc \in {"loop", "event", "done"} =>
       /\ \A i, j \in 1..Len(current_lines) : current_lines[i] = current_lines[j] => i = j
       /\ Range(current_lines) =
            {i \in 1..Len(lines) :
               /\ \A e \in Pending : ~(e.index = i /\ e.type = LINE_START)
               /\ \E e \in Pending : e.index = i /\ e.type = LINE_END}
       /\ \A i \in 1..Len(lines) :
            /\ Cardinality({e \in Pending : e.index = i /\ e.type = LINE_START}) <= 1
            /\ Cardinality({e \in Pending : e.index = i /\ e.type = LINE_END}) = 
                 IF i \in Range(current_lines) \/ \E e \in Pending : e.index = i /\ e.type = LINE_START
                 THEN 1 ELSE 0
  /\ (pc \in {"loop", "done"} /\ events = {}) => current_lines = <<>>

\* a LINE_END is being processed while a LINE_START and a LINE_END of the
\* same y are still queued, other lines being active
C27_Witness ==
  /\ pc = "event"
  /\ event.type = LINE_END
  /\ ~QLt(y, event.y)
  /\ Len(current_lines) >= 3
  /\ \E e \in events : e.y = event.y /\ e.type = LINE_START
  /\ \E e \in events : e.y = event.y /\ e.type = LINE_END /\ e.index < event.index

\* ------------------------------------------------------------------------
\* Termination of the sweep
\* ------------------------------------------------------------------------

\* one iteration of while (y < event.y) was made
StripEmitted == pc = "event" /\ pc' = "event"

\* the strip of an iteration runs from the current y to a greater y that is
\* at most event.y, and that is event.y or the y of an intersection of two
\* active lines; it starts where the strip before it ended
StripAdvances ==
  StripEmitted =>
    /\ QLt(y, y')
    /\ QLe(y', event.y)
    /\ strip'.y0 = y
    /\ strip'.y1 = y'
    /\ strip # NoStrip => strip'.y0 = strip.y1
    /\ \/ y' = event.y
       \/ \E a, b \in Range(current_lines) :
            /\ lines[a].m # lines[b].m
            /\ intersect(lines[a], lines[b]) = y'

\* write_png is called when the queue is empty, and nothing runs after it
WrittenOnce ==
  /\ pc # "done"
  /\ pc' = "done" => pc = "loop" /\ events = {}
  /\ (pc \in {"loop", "event"} /\ ~StripEmitted) => y' = y

\* the heights at which a strip can end: the ends of the segments and the
\* intersections of two lines
Heights ==
  {SegMin(SegmentOfLine(i)) : i \in 1..Len(lines)}
  \cup {SegMax(SegmentOfLine(i)) : i \in 1..Len(lines)}
  \cup {intersect(lines[p[1]], lines[p[2]]) :
          p \in {q \in (1..Len(lines)) \X (1..Len(lines)) : lines[q[1]].m # lines[q[2]].m}}

\* what is left of the sweep at height yy with the events evs queued: the
\* heights above yy, the events, the event popped and the call of write_png
Rank(yy, evs, at) ==
  Cardinality({h \in Heights : QLt(yy, h)}) + 2 * Cardinality(evs)
    + (IF at = "event" THEN 1 ELSE 0) + (IF at = "done" THEN 0 ELSE 1)

\* every step of the sweep leaves less of it
RankDecreases ==
  pc \in {"loop", "event"} =>
    \E after \in {<<y', events', pc'>>} :
      Rank(after[1], after[2], after[3]) < Rank(y, events, pc)

\* the event popped can be processed: a strip below it is emitted, or its
\* line is started, or its line is among the active ones and is ended
CanStep ==
  pc = "event" =>
    \/ QLt(y, event.y) /\ sort_results(Range(current_lines), lines, y) # {}
    \/ ~QLt(y, event.y) /\ event.type = LINE_START
    \/ ~QLt(y, event.y) /\ event.type = LINE_END /\ event.index \in Range(current_lines)

\* C28: the sweep terminates: every iteration of the inner loop emits a strip
\* from y to a next_y with y < next_y <= event.y, consecutive strips are
\* contiguous, every strip before the last of an event ends at an
\* intersection of two active lines (so their number bounds the iterations),
\* every step leaves less of the sweep to do and there is a next step until
\* the queue is empty and write_png is called, once
C28_SweepTerminates ==
  /\ []CanStep
  /\ [][StripAdvances /\ WrittenOnce /\ RankDecreases]_vars

\* a strip that starts and ends at intersections, between two events
C28_Witness ==
  /\ pc = "event"
  /\ strip # NoStrip
  /\ y = strip.y1
  /\ QLt(strip.y1, event.y)
  /\ \A i \in 1..Len(lines) :
       SegMin(SegmentOfLine(i)) # strip.y0 /\ SegMax(SegmentOfLine(i)) # strip.y0
  /\ adds # <<>>

\* ------------------------------------------------------------------------
\* The outlines stroke hands to fill_subpath
\* ------------------------------------------------------------------------

\* the point lists of the new_subpath values that stroke passes to
\* fill_subpath for one subpath
stroke_outlines(subpath, offset) ==
  LET points == subpath.points
      forward == stroke_forward(points, <<>>, offset, 2)
  IN  IF subpath.closed
      THEN <<push_offset_segment(forward, points[Len(points)], points[1], offset),
             stroke_backward(points, push_offset_segment(<<>>, points[1], points[Len(points)], offset),
                             offset, Len(points))>>
      ELSE <<stroke_backward(points, forward, offset, Len(points))>>

\* C29: for a path whose subpaths each hold a point, Path::stroke passes to
\* fill_subpath only outlines that hold a point, so fill_subpath never reads
\* points.back() or points.front() of an empty list: the stroke does not
\* fault, and every outline of a stroke made is not empty
C29_NoEmptyOutline ==
  /\ pc = "crashed" => path.subpaths = <<>>
  /\ Stroked =>
       \A k \in 1..Len(path.subpaths) :
         \A w \in StrokeWidths :
           \A o \in Range(stroke_outlines(path.subpaths[k], QDiv(w, QI(2)))) : o # <<>>

\* ------------------------------------------------------------------------
\* The stored blocks of the IDAT chunk
\* ------------------------------------------------------------------------

\* the widths of the pixmaps whose block headers are written: small ones and
\* the ones around the greatest row that fits a stored block
BlockWidths == (1..Width) \cup (16380..16388)

\* the head of the loop over the rows of write_png, for row y of a pixmap of
\* width x height pixels
InitBlock ==
  /\ AtRest
  /\ pc = "call"
  /\ returned = NoCall
  /\ \E w \in BlockWidths, h \in 1..Height :
       \E row \in 0..(h - 1) :
         call = [f |-> "block_header", width |-> w, height |-> h, y |-> row]

\* is_final, length and ~length of the row are written
BlockHeader ==
  /\ pc = "call"
  /\ call.f = "block_header"
  /\ returned' = [f |-> "block_header", bytes |-> block_header(call.width, call.y, call.height)]
  /\ pc' = "returned"
  /\ UNCHANGED <<doc, shapes, width, height, lines, events, y, event, current_lines, pixels, strip, strip_ids, adds, run, ref, change, path, call>>

NextBlock == BlockHeader

SpecBlock == InitBlock /\ [][NextBlock]_vars

\* C30: the block of a row starts with the final flag, set for the last row
\* alone, then LEN, low byte first, equal to the 1 + 4 * width bytes that
\* follow in the block, then NLEN, the one's complement of LEN
C30_StoredBlocks ==
  (pc = "returned" /\ returned.f = "block_header") =>
    LET b == returned.bytes
    IN  /\ Len(b) = 5
        /\ b[1] = (IF call.y = call.height - 1 THEN 1 ELSE 0)
        /\ b[2] + 256 * b[3] = 1 + 4 * call.width
        /\ b[4] + 256 * b[5] = 65535 - (b[2] + 256 * b[3])

====
